---------------------------- MODULE Spec2Model ----------------------------
(***************************************************************************)
(* A model of the Capacities client gateway (src/client/capacities.ts):    *)
(* the RateLimiter's fixed-window admission, CapacitiesClient.makeRequest  *)
(* (classify, wait for a slot, fetch, map the response) and the facade     *)
(* operations built on it.                                                 *)
(*                                                                         *)
(* Concurrency is the single-threaded event loop of Node: a synchronous    *)
(* run of a function (up to its first suspending await) is one atomic      *)
(* action; callers interleave only at awaits.                              *)
(*                                                                         *)
(* Time.  Date.now() is kept relative: the origin of time is moved to the  *)
(* current instant each time the clock advances, so `now` reads 0 and      *)
(* every stored timestamp (a window's resetTime, a timer's due time) is an *)
(* offset from the current instant.  Tick(d) lets d milliseconds pass by   *)
(* lowering every stored offset by d.  An offset in the past is kept as 0: *)
(* the code only ever asks whether now >= resetTime, and subtracts only    *)
(* when resetTime is in the future.  This keeps the state finite while     *)
(* time runs for ever.                                                     *)
(***************************************************************************)
EXTENDS Integers, Sequences, FiniteSets, TLC

(* ------------------------------ bounds --------------------------------- *)

\* Logical callers (async call chains) that may be in flight at once.
NCallers == 2
\* Calls to general endpoints started in one behaviour of Spec: enough to
\* exhaust the general window (5) and to make a caller wait.
MaxCalls == 6
\* Calls to search and weblink endpoints started in one behaviour of Spec.
\* Their budgets (120, 10) are out of reach of the exploration; these calls
\* exercise their windows beside the general one.
MaxOtherCalls == 1
\* Concurrent getSpaceInfo calls of one content analysis in BurstSpec:
\* enough to leave more than maxRequests callers waiting on one window.
NBurst == 11
\* Calls of the single caller of GatewaySpec.
MaxGatewayCalls == 2
\* Milliseconds that pass in one step of the clock.
TickMs == 30000
\* Tool invocations in one behaviour of ToolSpec.
MaxToolCalls == 1

(* ------------------------------ helpers -------------------------------- *)

Min(a, b) == IF a <= b THEN a ELSE b
Max(a, b) == IF a >= b THEN a ELSE b

\* String.prototype.includes on strings kept as sequences of characters.
Includes(s, t) ==
  \E i \in 1..(Len(s) - Len(t) + 1) : SubSeq(s, i, i + Len(t) - 1) = t

\* Map.prototype.set on a map kept as a function whose DOMAIN is its key set.
MapSet(m, k, v) == [x \in (DOMAIN m) \cup {k} |-> IF x = k THEN v ELSE m[x]]

(* ---------------------------- RateLimiter ------------------------------ *)

Categories == {"general", "search", "weblink"}

\* private limits = { general: ..., search: ..., weblink: ... }
limits ==
  [general |-> [maxRequests |-> 5,   windowMs |-> 60000],
   search  |-> [maxRequests |-> 120, windowMs |-> 60000],
   weblink |-> [maxRequests |-> 10,  windowMs |-> 60000]]

\* const now = Date.now(), read against the moving origin.
now == 0

\* A timer may run its callback this much before its due time (Node aligns
\* timer deadlines to its cached loop time, so a callback can observe a
\* Date.now() below the deadline); it may run arbitrarily late.
TimerSlackMs == TickMs


(* ------------------------------- state --------------------------------- *)

VARIABLES
  windows,       \* RateLimiter.windows: category -> [requests, resetTime]
  pc,            \* where each caller stands inside makeRequest
  endpoint,      \* makeRequest's `endpoint` argument of each caller
  endpointType,  \* makeRequest's `endpointType` local of each caller
  timer,         \* due time of the setTimeout a suspended caller waits on
  response,      \* makeRequest's `response` local: what fetch resolved with
  result,        \* how each caller's last makeRequest settled
  calls,         \* the facade calls started so far, general ones and others
  sent,          \* history: per category, the send times of the requests
                 \*   issued less than windowMs ago (offsets from now)
  admitted,      \* history: per category, callers admitted by the stored window
  arrivals,      \* history: per category, waitForSlot runs since the stored
                 \*   window was created (counted up to maxRequests + 1)
  barrier,       \* history: resetTime of the exhausted window a caller's call
                 \*   first met (offset from now), -1 when it met none
  apiToken,      \* CapacitiesClient.apiToken, set by the constructor
  op,            \* the facade operation each caller is in, with its options
                 \*   (None: makeRequest entered without one)
  request,       \* the request each caller handed to fetch
  opResult,      \* how each caller's last facade operation settled
  slots,         \* history: slots granted to each caller's current call
  fetches,       \* history: requests issued by each caller's current call
  tokenLogged,   \* history: a debug record or an error message written so far
                 \*   contained the API token
  tool,          \* the tool invocation the server is handling: its arguments
                 \*   and where its handler stands
  toolResult     \* how the last tool invocation settled

vars == <<windows, pc, endpoint, endpointType, timer, response, result, calls,
          sent, admitted, arrivals, barrier, apiToken, op, request, opResult,
          slots, fetches, tokenLogged, tool, toolResult>>

\* The variables of the tool layer.
toolVars == <<tool, toolResult>>

\* The callers of Spec, GeneralSpec and LiveSpec.
Callers == 1..NCallers

\* The callers of BurstSpec.
BurstCallers == 1..NBurst

\* The caller of GatewaySpec.
GatewayCallers == {1}

\* The caller of FacadeSpec.
FacadeCallers == {1}

\* The callers of the specification at hand: those the per-caller
\* variables were set up for.
AllCallers == DOMAIN pc

\* The value a name has before anything was assigned to it.
None == "none"

(* ------------------------ endpoint classification ---------------------- *)

\* getEndpointType(endpoint), with the wrong order of the two tests.
getEndpointTypeWeblinkFirst(ep) ==
  IF Includes(ep, "/save-weblink") THEN "weblink"
  ELSE IF Includes(ep, "/search") THEN "search"
  ELSE "general"

\* private getEndpointType(endpoint)
getEndpointType(ep) ==
  IF Includes(ep, "/search") THEN "search"
  ELSE IF Includes(ep, "/save-weblink") THEN "weblink"
  ELSE "general"

(* ---------------------------- waitForSlot ------------------------------ *)

\* `now >= window.resetTime`, written with > by mistake.
ExpiredStrict(window, t) == t > window.resetTime

\* now >= window.resetTime
Expired(window, t) == t >= window.resetTime

\* `window.requests >= limit.maxRequests`, written with > by mistake.
ExhaustedLax(window, limit) == window.requests > limit.maxRequests

\* `window.requests >= limit.maxRequests`, off by one the other way.
ExhaustedEarly(window, limit) == window.requests >= limit.maxRequests - 1

\* window.requests >= limit.maxRequests
Exhausted(window, limit) == window.requests >= limit.maxRequests

\* { requests: 1, resetTime: now + limit.windowMs }
\* A window created with a counter that does not count its creating request.
NewWindowEmpty(t, limit) == [requests |-> 0, resetTime |-> t + limit.windowMs]

NewWindow(t, limit) == [requests |-> 1, resetTime |-> t + limit.windowMs]

\* The history variables after a synchronous run of waitForSlot(ep) by
\* caller p.  They record what happened in the words of the properties, not
\* in those of the code: whether the stored window was current and full is
\* read off the window itself.
Observe(p, ep) ==
  LET had     == ep \in DOMAIN windows
      current == had /\ now < windows[ep].resetTime
      full    == current /\ windows[ep].requests >= limits[ep].maxRequests
      n       == IF current
                 THEN Min(arrivals[ep] + 1, limits[ep].maxRequests + 1)
                 ELSE 1
  IN
  /\ arrivals' = [arrivals EXCEPT ![ep] = n]
  /\ admitted' = [admitted EXCEPT ![ep] =
                    IF pc'[p] # "granted" THEN @
                    ELSE IF current THEN @ + 1 ELSE 1]
  /\ barrier' = [barrier EXCEPT ![p] =
                    IF full /\ @ = -1 THEN windows[ep].resetTime ELSE @]
  /\ slots' = [slots EXCEPT ![p] =
                  (IF pc[p] = "idle" THEN 0 ELSE @)
                    + (IF pc'[p] = "granted" THEN 1 ELSE 0)]

\* waitForSlot keeping one window for all categories.
waitForSlotShared(p, ep) ==
  LET limit == limits[ep] IN
  /\ IF "general" \notin DOMAIN windows \/ Expired(windows["general"], now)
     THEN /\ windows' = MapSet(windows, "general", NewWindow(now, limit))
          /\ pc' = [pc EXCEPT ![p] = "granted"]
          /\ timer' = [timer EXCEPT ![p] = 0]
     ELSE IF Exhausted(windows["general"], limits["general"])
     THEN LET waitTime == windows["general"].resetTime - now IN
          /\ timer' = [timer EXCEPT ![p] = now + waitTime]
          /\ pc' = [pc EXCEPT ![p] = "waiting"]
          /\ windows' = windows
     ELSE /\ windows' = [windows EXCEPT !["general"].requests = @ + 1]
          /\ pc' = [pc EXCEPT ![p] = "granted"]
          /\ timer' = [timer EXCEPT ![p] = 0]
  /\ admitted' = admitted
  /\ arrivals' = arrivals
  /\ barrier' = barrier
  /\ slots' = slots

\* async waitForSlot(endpoint): one synchronous run by caller p, from its
\* entry to its return or to its suspension on the timer.
waitForSlot(p, ep) ==
  LET limit == limits[ep] IN
  /\ IF ep \notin DOMAIN windows \/ Expired(windows[ep], now)
     THEN /\ windows' = MapSet(windows, ep, NewWindow(now, limit))
          /\ pc' = [pc EXCEPT ![p] = "granted"]
          /\ timer' = [timer EXCEPT ![p] = 0]
     ELSE IF Exhausted(windows[ep], limit)
     THEN LET waitTime == windows[ep].resetTime - now IN
          /\ timer' = [timer EXCEPT ![p] = now + waitTime]
          /\ pc' = [pc EXCEPT ![p] = "waiting"]
          /\ windows' = windows
     ELSE /\ windows' = [windows EXCEPT ![ep].requests = @ + 1]
          /\ pc' = [pc EXCEPT ![p] = "granted"]
          /\ timer' = [timer EXCEPT ![p] = 0]
  /\ Observe(p, ep)

\* The timer's callback resolves the promise without the retry
\* (`return this.waitForSlot(endpoint)` left out).
ResumeWithoutRetry(p) ==
  /\ pc' = [pc EXCEPT ![p] = "granted"]
  /\ timer' = [timer EXCEPT ![p] = 0]
  /\ windows' = windows
  /\ admitted' = [admitted EXCEPT ![endpointType[p]] = @ + 1]
  /\ slots' = [slots EXCEPT ![p] = @ + 1]
  /\ UNCHANGED <<arrivals, barrier>>

\* After the await on the timer: return this.waitForSlot(endpoint)
Resume(p) == waitForSlot(p, endpointType[p])

(* ----------------------------- makeRequest ----------------------------- *)

\* { success: true }
SuccessMarker == [success |-> TRUE]

\* response.ok
Ok(status) == status >= 200 /\ status <= 299

\* new CapacitiesAPIError(code, message)
CapacitiesAPIError(code, message) ==
  [kind |-> "throw", name |-> "CapacitiesAPIError", code |-> code,
   message |-> message]

\* The rejection of fetch() on a transport failure: undici's
\* TypeError("fetch failed"), which carries no code.
FetchFailed ==
  [kind |-> "throw", name |-> "TypeError", code |-> None,
   message |-> "fetch failed"]

\* A space id of the form validateUUID accepts, the same id with the
\* version digit 6, which it refuses, and the same id in upper case.
SpaceUUID == "123e4567-e89b-42d3-a456-426614174000"
SpaceUUIDv6 == "123e4567-e89b-62d3-a456-426614174000"
SpaceUUIDUpper == "123E4567-E89B-42D3-A456-426614174000"

\* Three search results, as searchContent returns them.
ResultA ==
  [id |-> "a", spaceId |-> SpaceUUID, structureId |-> "RootPage",
   title |-> "Alpha plan", highlights |-> <<>>]
ResultB ==
  [id |-> "b", spaceId |-> SpaceUUID, structureId |-> "RootPage",
   title |-> "Beta plan", highlights |-> <<[snippets |-> <<"the plan">>]>>]
ResultC ==
  [id |-> "c", spaceId |-> SpaceUUID, structureId |-> "RootPage",
   title |-> "To do", highlights |-> <<>>]

\* The text of a JSON answer to POST /search with the three results.
ResultsBody ==
  "{\"results\":["
    \o "{\"id\":\"a\",\"spaceId\":\"" \o SpaceUUID
    \o "\",\"structureId\":\"RootPage\",\"title\":\"Alpha plan\",\"highlights\":[]},"
    \o "{\"id\":\"b\",\"spaceId\":\"" \o SpaceUUID
    \o "\",\"structureId\":\"RootPage\",\"title\":\"Beta plan\","
    \o "\"highlights\":[{\"snippets\":[\"the plan\"]}]},"
    \o "{\"id\":\"c\",\"spaceId\":\"" \o SpaceUUID
    \o "\",\"structureId\":\"RootPage\",\"title\":\"To do\",\"highlights\":[]}]}"

\* response.json() on the bodies of the model: whether the text parses as
\* JSON, and the parsed value.
JsonParse(body) ==
  CASE body = "{\"spaces\":[]}"  -> [parsed |-> TRUE, value |-> [spaces |-> <<>>]]
    [] body = ResultsBody ->
         [parsed |-> TRUE, value |-> [results |-> <<ResultA, ResultB, ResultC>>]]
    [] body = "{\"results\":[]}" -> [parsed |-> TRUE, value |-> [results |-> <<>>]]
    [] OTHER                     -> [parsed |-> FALSE, value |-> None]

\* `if (!response.ok)` with the 401 test before the 429 test and a default
\* that forgets the status.
ErrorOfNoStatus(status) ==
  IF status = 401 \/ status = 429
  THEN CapacitiesAPIError("AUTHENTICATION_FAILED", "Invalid API token")
  ELSE CapacitiesAPIError("API_ERROR", "API error")

\* The error thrown inside `if (!response.ok) { ... }`
ErrorOf(status) ==
  IF status = 429
  THEN CapacitiesAPIError("RATE_LIMIT_EXCEEDED", "Rate limit exceeded")
  ELSE IF status = 401
  THEN CapacitiesAPIError("AUTHENTICATION_FAILED", "Invalid API token")
  ELSE CapacitiesAPIError("API_ERROR", "API error: " \o ToString(status))

\* makeRequest with response.json() tried before the headers are looked at.
SettleParseFirst(r) ==
  IF ~Ok(r.status) THEN ErrorOf(r.status)
  ELSE IF JsonParse(r.body).parsed
  THEN [kind |-> "return", value |-> JsonParse(r.body).value, bodyRead |-> TRUE]
  ELSE [kind |-> "return", value |-> SuccessMarker, bodyRead |-> TRUE]

\* makeRequest without the try/catch around response.json().
SettleParseThrows(r) ==
  IF ~Ok(r.status) THEN ErrorOf(r.status)
  ELSE IF r.contentLength = "0"
          \/ ~(r.contentType # None /\ Includes(r.contentType, "application/json"))
  THEN [kind |-> "return", value |-> SuccessMarker, bodyRead |-> FALSE]
  ELSE IF JsonParse(r.body).parsed
  THEN [kind |-> "return", value |-> JsonParse(r.body).value, bodyRead |-> TRUE]
  ELSE [kind |-> "throw", name |-> "SyntaxError", code |-> None,
        message |-> "Unexpected token"]

\* makeRequest from the arrival of the response to its return or throw;
\* bodyRead tells whether response.json() was called.
Settle(r) ==
  IF ~Ok(r.status) THEN ErrorOf(r.status)
  ELSE IF r.contentLength = "0"
          \/ ~(r.contentType # None /\ Includes(r.contentType, "application/json"))
  THEN [kind |-> "return", value |-> SuccessMarker, bodyRead |-> FALSE]
  ELSE IF JsonParse(r.body).parsed
  THEN [kind |-> "return", value |-> JsonParse(r.body).value, bodyRead |-> TRUE]
  ELSE [kind |-> "return", value |-> SuccessMarker, bodyRead |-> TRUE]

\* this.baseUrl
baseUrl == "https://api.capacities.io"

\* The object {}: makeRequest's default `options`.
EmptyObject == <<>>

\* The value of an object's property: defined with a value, or undefined.
Val(v) == [defined |-> TRUE, value |-> v]
Undef == [defined |-> FALSE]
Prop(o, k) == IF k \in DOMAIN o THEN Val(o[k]) ELSE Undef

\* JSON.stringify(obj), kept as the object its text denotes: the properties
\* whose value is undefined are left out.
JsonStringify(obj) ==
  [k \in {x \in DOMAIN obj : obj[x].defined} |-> obj[k].value]

\* The headers with the token left out of the Authorization value.
HeadersWithoutToken(token, options) ==
  (IF "headers" \in DOMAIN options THEN options.headers ELSE EmptyObject)
    @@ ("Authorization" :> "Bearer ")
    @@ ("Content-Type" :> "application/json")

\* The headers makeRequest passes to fetch:
\* { Authorization, Content-Type, ...options.headers }
Headers(token, options) ==
  (IF "headers" \in DOMAIN options THEN options.headers ELSE EmptyObject)
    @@ ("Authorization" :> ("Bearer " \o token))
    @@ ("Content-Type" :> "application/json")

\* The arguments of fetch: the url, and { ...options, headers: {...} }.
FetchArgs(token, ep, options) ==
  [url |-> baseUrl \o ep,
   init |-> ("headers" :> Headers(token, options)) @@ options]

\* The debug records with the request's Authorization header among them.
DebugLogWithHeaders(ep, r) ==
  <<[text |-> "DEBUG: Request headers:", printed |-> "Bearer " \o apiToken]>>

\* The records makeRequest writes with console.error for the response r to
\* a request of endpoint ep, in order.  A parsed value is printed from the
\* body's text, kept here as that text.
DebugLog(ep, r) ==
  IF ~Ok(r.status) THEN <<>>
  ELSE
    <<[text |-> "DEBUG: Response info:", status |-> r.status,
       contentType |-> r.contentType, contentLength |-> r.contentLength,
       endpoint |-> ep]>>
    \o (IF r.contentLength = "0"
           \/ ~(r.contentType # None /\ Includes(r.contentType, "application/json"))
        THEN <<[text |-> "DEBUG: Empty or non-JSON response, returning success indicator"]>>
        ELSE IF JsonParse(r.body).parsed
        THEN <<[text |-> "DEBUG: Parsed JSON response:", printed |-> r.body]>>
        ELSE <<[text |-> "DEBUG: JSON parsing failed:", printed |-> "SyntaxError"]>>)

\* The strings a debug record shows.
LogStrings(rec) ==
  {rec.text}
    \cup (IF "endpoint" \in DOMAIN rec
          THEN {rec.endpoint, rec.contentType, rec.contentLength} ELSE {})
    \cup (IF "printed" \in DOMAIN rec THEN {rec.printed} ELSE {})

(* ------------------------------- facade -------------------------------- *)

\* makeRequest entered without a facade operation.
NoOp == [name |-> "makeRequest"]

\* The path each operation passes to makeRequest.
EndpointOf(o) ==
  CASE o.name = "getSpaces"       -> "/spaces"
    [] o.name = "getSpaceInfo"    -> "/space-info?spaceid=" \o o.options.spaceId
    [] o.name = "searchContent"   -> "/search"
    [] o.name = "saveWeblink"     -> "/save-weblink"
    [] o.name = "saveToDailyNote" -> "/save-to-daily-note"

\* searchContent's request with `mode: options.mode`, the default left out.
searchContentRequestNoDefault(options) ==
  [method |-> "POST",
   body |-> JsonStringify(
     [searchTerm |-> Prop(options, "query"),
      spaceIds |-> Prop(options, "spaceIds"),
      mode |-> Prop(options, "mode"),
      filterStructureIds |-> Prop(options, "structureIds")])]

\* searchContent's second argument to makeRequest.
searchContentRequest(options) ==
  [method |-> "POST",
   body |-> JsonStringify(
     [searchTerm |-> Prop(options, "query"),
      spaceIds |-> Prop(options, "spaceIds"),
      mode |-> Val(IF "mode" \in DOMAIN options /\ options.mode # ""
                   THEN options.mode ELSE "fullText"),
      filterStructureIds |-> Prop(options, "structureIds")])]

\* saveWeblink's request with `tags: options.tags`, the default left out.
saveWeblinkRequestNoDefault(options) ==
  [method |-> "POST",
   body |-> JsonStringify(
     [spaceId |-> Prop(options, "spaceId"),
      url |-> Prop(options, "url"),
      titleOverwrite |-> Prop(options, "title"),
      descriptionOverwrite |-> Prop(options, "description"),
      tags |-> Prop(options, "tags"),
      mdText |-> Prop(options, "notes")])]

\* saveWeblink's second argument to makeRequest (an array is truthy, also
\* when empty).
saveWeblinkRequest(options) ==
  [method |-> "POST",
   body |-> JsonStringify(
     [spaceId |-> Prop(options, "spaceId"),
      url |-> Prop(options, "url"),
      titleOverwrite |-> Prop(options, "title"),
      descriptionOverwrite |-> Prop(options, "description"),
      tags |-> Val(IF "tags" \in DOMAIN options THEN options.tags ELSE <<>>),
      mdText |-> Prop(options, "notes")])]

\* saveToDailyNote's second argument to makeRequest.
saveToDailyNoteRequest(options) ==
  [method |-> "POST",
   body |-> JsonStringify(
     [spaceId |-> Prop(options, "spaceId"),
      mdText |-> Prop(options, "content"),
      noTimeStamp |-> Val("noTimestamp" \in DOMAIN options
                            /\ options.noTimestamp)])]

\* The `options` argument makeRequest receives from operation o.
RequestInitOf(o) ==
  CASE o.name = "searchContent"   -> searchContentRequest(o.options)
    [] o.name = "saveWeblink"     -> saveWeblinkRequest(o.options)
    [] o.name = "saveToDailyNote" -> saveToDailyNoteRequest(o.options)
    [] OTHER                      -> EmptyObject

\* The operations with a catch that wraps a failure of makeRequest.
FacadeWrapsError(o, outcome) ==
  IF outcome.kind = "throw"
  THEN [kind |-> "throw", name |-> "Error", code |-> None,
        message |-> "Request failed: " \o outcome.message]
  ELSE [kind |-> "return", value |-> Val(outcome.value)]

\* How operation o settles when its makeRequest settled with outcome:
\* getSpaces returns response.spaces, searchContent response.results, the
\* others what makeRequest returned; nothing catches a failure.
Facade(o, outcome) ==
  IF outcome.kind = "throw" THEN outcome
  ELSE CASE o.name = "getSpaces" ->
              [kind |-> "return", value |-> Prop(outcome.value, "spaces")]
         [] o.name = "searchContent" ->
              [kind |-> "return", value |-> Prop(outcome.value, "results")]
         [] OTHER ->
              [kind |-> "return", value |-> Val(outcome.value)]

(* ------------------------------ inputs --------------------------------- *)

\* The spaceId strings a caller passes to getSpaceInfo.
SpaceIds == {"s1", "a/search"}

\* The paths the facade operations pass to makeRequest.
FacadeEndpoints ==
  {"/spaces", "/search", "/save-weblink", "/save-to-daily-note"}
    \cup {"/space-info?spaceid=" \o id : id \in SpaceIds}

\* Pieces of paths: the two markers, parts of them and other text.
Fragments ==
  {"/search", "/save-weblink", "/sea", "rch", "/Search", "/spaces"}

\* Paths of one or two pieces: a marker alone, after or before other text,
\* both markers in either order, a marker cut in two.
Paths == Fragments \cup {a \o b : a \in Fragments, b \in Fragments}

Statuses == {200, 204, 299, 199, 300, 401, 404, 429, 500}

ContentTypes ==
  {None, "application/json", "application/json; charset=utf-8", "text/html"}

ContentLengths == {None, "0", "13"}

Bodies == {"", "{\"spaces\":[]}", "{\"results\":[]}", "<html>"}

\* Every response of the model.
Responses ==
  [status : Statuses, contentType : ContentTypes,
   contentLength : ContentLengths, body : Bodies]

\* A JSON answer to GET /spaces.
OkJson ==
  [status |-> 200, contentType |-> "application/json",
   contentLength |-> "13", body |-> "{\"spaces\":[]}"]

\* The responses the concurrent specifications draw from.
CommonResponses ==
  {OkJson,
   [status |-> 429, contentType |-> "text/html", contentLength |-> None,
    body |-> "<html>"]}

\* The paths the concurrent specification draws from: one facade
\* operation of each category.
CommonEndpoints == {"/spaces", "/search", "/save-weblink"}

\* The API tokens a client is constructed with.
Tokens == {"tok-A", "tok-B"}

\* The options searchContent is called with: mode and structureIds given
\* or omitted.
SearchOptionsSet ==
  {m @@ f @@ [query |-> "x", spaceIds |-> <<"s1">>] :
     m \in {EmptyObject, [mode |-> "fullText"], [mode |-> "title"]},
     f \in {EmptyObject, [structureIds |-> <<"st1">>]}}

\* The options saveWeblink is called with: tags and title given or omitted.
SaveWeblinkOptionsSet ==
  {t @@ h @@ [spaceId |-> "s1", url |-> "https://example.org"] :
     t \in {EmptyObject, [tags |-> <<>>], [tags |-> <<"t1">>]},
     h \in {EmptyObject, [title |-> "T"]}}

\* The options saveToDailyNote is called with: noTimestamp given or omitted.
SaveToDailyNoteOptionsSet ==
  {n @@ [spaceId |-> "s1", content |-> "hello"] :
     n \in {EmptyObject, [noTimestamp |-> TRUE], [noTimestamp |-> FALSE]}}

\* The facade operations with their arguments.
Operations ==
  {[name |-> "getSpaces", options |-> EmptyObject]}
    \cup {[name |-> "getSpaceInfo", options |-> [spaceId |-> id]] : id \in SpaceIds}
    \cup {[name |-> "searchContent", options |-> o] : o \in SearchOptionsSet}
    \cup {[name |-> "saveWeblink", options |-> o] : o \in SaveWeblinkOptionsSet}
    \cup {[name |-> "saveToDailyNote", options |-> o] : o \in SaveToDailyNoteOptionsSet}

\* The responses the facade operations receive: JSON payloads of either
\* shape, an empty answer, a malformed JSON answer, and the three kinds of
\* error status.
FacadeResponses ==
  {r \in Responses :
     \/ r.status = 200 /\ r.contentType = "application/json"
          /\ r.contentLength = "13" /\ r.body # "<html>"
     \/ r.status = 204 /\ r.contentType = None /\ r.contentLength = "0"
          /\ r.body = ""
     \/ r.status \in {401, 429, 500} /\ r.contentType = "text/html"
          /\ r.contentLength = None /\ r.body = "<html>"}

(* ------------------------------- tools --------------------------------- *)

\* The character of the string s at position i, counted from 1.
Char(s, i) == SubSeq(s, i, i)

\* The characters of a string.
Chars(s) == {Char(s, i) : i \in 1..Len(s)}

LowerLetters == "abcdefghijklmnopqrstuvwxyz"
UpperLetters == "ABCDEFGHIJKLMNOPQRSTUVWXYZ"
Digits == "0123456789"

\* [0-9a-f] under the i flag.
HexDigits == Chars(Digits) \cup Chars("abcdef") \cup Chars("ABCDEF")

\* validateUUID with the version and variant positions tested as any hex
\* digit.
validateUUIDAnyVersion(value) ==
  /\ Len(value) = 36
  /\ \A i \in 1..36 :
       IF i \in {9, 14, 19, 24} THEN Char(value, i) = "-"
       ELSE Char(value, i) \in HexDigits

\* validateUUID(value): the test of
\* /^[0-9a-f]{8}-[0-9a-f]{4}-[1-5][0-9a-f]{3}-[89ab][0-9a-f]{3}-[0-9a-f]{12}$/i
validateUUID(value) ==
  /\ Len(value) = 36
  /\ \A i \in 1..36 :
       IF i \in {9, 14, 19, 24} THEN Char(value, i) = "-"
       ELSE IF i = 15 THEN Char(value, i) \in Chars("12345")
       ELSE IF i = 20 THEN Char(value, i) \in Chars("89abAB")
       ELSE Char(value, i) \in HexDigits

\* String.prototype.toLowerCase on one character.
LowerChar(c) ==
  IF c \in Chars(UpperLetters)
  THEN Char(LowerLetters, CHOOSE i \in 1..26 : Char(UpperLetters, i) = c)
  ELSE c

RECURSIVE toLowerCase(_)
\* String.prototype.toLowerCase
toLowerCase(s) ==
  IF s = "" THEN ""
  ELSE LowerChar(Char(s, 1)) \o toLowerCase(SubSeq(s, 2, Len(s)))

\* validateUrl(value): whether new URL(value) succeeds.  An absolute URL
\* needs a scheme (a letter, then letters, digits, "+", "-" or ".") before
\* its first ":"; an http or https URL also needs a host after the slashes.
validateUrl(value) ==
  \E i \in 2..Len(value) :
    /\ Char(value, i) = ":"
    /\ Char(value, 1) \in Chars(LowerLetters) \cup Chars(UpperLetters)
    /\ \A j \in 2..(i - 1) :
         Char(value, j) \in Chars(LowerLetters) \cup Chars(UpperLetters)
                              \cup Chars(Digits) \cup Chars("+-.")
    /\ toLowerCase(SubSeq(value, 1, i - 1)) \in {"http", "https"}
         => \E j \in (i + 1)..Len(value) : Char(value, j) \notin Chars("/\\")

\* \s of a regular expression, on the characters of the model.
Whitespace == {" ", "\n", "\t"}

RECURSIVE SplitFrom(_, _, _)
\* s.split(/\s+/) from position i on, `piece` being the piece collected so
\* far: a run of whitespace is one separator.
SplitFrom(s, i, piece) ==
  IF i > Len(s) THEN <<piece>>
  ELSE IF Char(s, i) \in Whitespace
  THEN IF i > 1 /\ Char(s, i - 1) \in Whitespace
       THEN SplitFrom(s, i + 1, piece)
       ELSE <<piece>> \o SplitFrom(s, i + 1, "")
  ELSE SplitFrom(s, i + 1, piece \o Char(s, i))

\* s.split(/\s+/)
Split(s) == SplitFrom(s, 1, "")

RECURSIVE Join(_, _)
\* Array.prototype.join(sep) on an array of strings.
Join(strings, sep) ==
  IF Len(strings) = 0 THEN ""
  ELSE IF Len(strings) = 1 THEN strings[1]
  ELSE strings[1] \o sep \o Join(Tail(strings), sep)

RECURSIVE Flat(_)
\* Array.prototype.flat() on an array of arrays.
Flat(arrays) ==
  IF Len(arrays) = 0 THEN <<>> ELSE Head(arrays) \o Flat(Tail(arrays))

\* array.slice(0, n)
SliceTo(array, n) == SubSeq(array, 1, Min(n, Len(array)))

RECURSIVE StripPunctuation(_)
\* s.replace(/[^\w\s]/g, '')
StripPunctuation(s) ==
  IF s = "" THEN ""
  ELSE LET c == Char(s, 1) IN
       (IF c \in Chars(LowerLetters) \cup Chars(UpperLetters)
                   \cup Chars(Digits) \cup {"_"} \cup Whitespace
        THEN c ELSE "")
         \o StripPunctuation(SubSeq(s, 2, Len(s)))

\* isStopWord(word)
isStopWord(word) ==
  word \in {"the", "and", "but", "for", "are", "with", "this", "that",
            "from", "they", "have", "been"}

\* extractKeyTerms(title): the first three words of more than three
\* characters that are no stop words.
extractKeyTerms(title) ==
  SliceTo(
    SelectSeq(Split(StripPunctuation(toLowerCase(title))),
              LAMBDA word : Len(word) > 3 /\ ~isStopWord(word)),
    3)

\* const synonymMap = { meeting: [...], project: [...], note: [...], idea: [...] }
synonymMap ==
  [meeting |-> <<"discussion", "call", "session", "standup">>,
   project |-> <<"initiative", "work", "task", "effort">>,
   note    |-> <<"notes", "memo", "documentation", "record">>,
   idea    |-> <<"concept", "thought", "brainstorm", "insight">>]

RECURSIVE ReplaceAll(_, _, _)
\* s.replace(new RegExp(word, 'gi'), by), word being plain letters.
ReplaceAll(s, word, by) ==
  IF Len(s) < Len(word) \/ word = "" THEN s
  ELSE IF toLowerCase(SubSeq(s, 1, Len(word))) = word
  THEN by \o ReplaceAll(SubSeq(s, Len(word) + 1, Len(s)), word, by)
  ELSE Char(s, 1) \o ReplaceAll(SubSeq(s, 2, Len(s)), word, by)

\* findSynonyms(query): for each word of the query that has synonyms, the
\* query with the word replaced by each synonym.
findSynonyms(query) ==
  LET words == Split(toLowerCase(query)) IN
  Flat([i \in 1..Len(words) |->
          IF words[i] \in DOMAIN synonymMap
          THEN [j \in 1..Len(synonymMap[words[i]]) |->
                  ReplaceAll(query, words[i], synonymMap[words[i]][j])]
          ELSE <<>>])

\* expandSearchQuery(query, context); `args` holds the tool's arguments.
expandSearchQuery(args) ==
  <<args.query>>
    \o (IF "context" \in DOMAIN args /\ args.context # ""
        THEN <<args.query \o " " \o args.context>> ELSE <<>>)
    \o findSynonyms(args.query)

RECURSIVE deduplicateResults(_)
\* deduplicateResults(results): each id kept where it occurs first.
deduplicateResults(results) ==
  IF Len(results) = 0 THEN <<>>
  ELSE LET n == Len(results)
           front == SubSeq(results, 1, n - 1)
       IN IF \E i \in 1..(n - 1) : results[i].id = results[n].id
          THEN deduplicateResults(front)
          ELSE Append(deduplicateResults(front), results[n])

\* calculateRelevanceScore(result, query)
calculateRelevanceScore(res, query) ==
  LET queryLower == toLowerCase(query)
      titleLower == toLowerCase(res.title)
      matching(h) == SelectSeq(h.snippets,
                       LAMBDA snippet : Includes(toLowerCase(snippet), queryLower))
      RECURSIVE snippetScore(_)
      snippetScore(i) ==
        IF i = 0 THEN 0
        ELSE snippetScore(i - 1) + Len(matching(res.highlights[i]))
  IN (IF Includes(titleLower, queryLower) THEN 10 ELSE 0)
       + (IF titleLower = queryLower THEN 20 ELSE 0)
       + Len(res.highlights) * 2
       + snippetScore(Len(res.highlights))

RECURSIVE rankByRelevance(_, _)
\* rankByRelevance(results, query): Array.prototype.sort with the comparator
\* scoreB - scoreA, a stable sort by descending score.
rankByRelevance(results, query) ==
  IF Len(results) = 0 THEN <<>>
  ELSE LET n == Len(results)
           sorted == rankByRelevance(SubSeq(results, 1, n - 1), query)
           score(r) == calculateRelevanceScore(r, query)
           k == Cardinality({i \in 1..(n - 1) :
                               score(sorted[i]) >= score(results[n])})
       IN SubSeq(sorted, 1, k) \o <<results[n]>> \o SubSeq(sorted, k + 1, n - 1)

\* The text of an interpolated value: "undefined" for a missing property.
Str(o, k) == IF k \in DOMAIN o THEN o[k] ELSE "undefined"

\* result.highlights.map(h => h.snippets.join(" ")).join("\n")
HighlightsText(res) ==
  Join([i \in 1..Len(res.highlights) |-> Join(res.highlights[i].snippets, " ")],
       "\n")

\* The text search_content returns for a non-empty result list.
FormatResults(results, query) ==
  "Found " \o ToString(Len(results)) \o " results for \"" \o query \o "\":\n\n"
    \o Join([i \in 1..Len(results) |->
               "**" \o results[i].title \o "**\nID: " \o results[i].id
                 \o "\nType: " \o results[i].structureId
                 \o "\n\nHighlights:\n" \o HighlightsText(results[i]) \o "\n"],
            "\n---\n")

\* formatSmartSearchResults(results, query); the emoji that opens the
\* header is left out.
formatSmartSearchResults(results, query) ==
  IF Len(results) = 0 THEN "No results found for \"" \o query \o "\""
  ELSE "Smart Search Results for \"" \o query \o "\" ("
         \o ToString(Len(results)) \o " found)\n\n"
         \o Join([i \in 1..Len(results) |->
                    ToString(i) \o ". **" \o results[i].title \o "**\n"
                      \o "   Type: " \o results[i].structureId \o "\n"
                      \o "   Preview: "
                      \o SubSeq(HighlightsText(results[i]), 1,
                                Min(200, Len(HighlightsText(results[i]))))
                      \o "...\n"
                      \o "   ID: " \o results[i].id \o "\n\n"],
                 "")

\* No tool invocation, and the handler's state between invocations: `count`
\* is the number of invocations so far.  During an invocation `step` is
\* the await the handler stands at, `waits` the callers whose client calls
\* it awaits, in order; queries, spaces, ranked, related and idx are locals
\* of smart_search; `requests` lists the client operations the invocation
\* has called and `ignored` the messages of the errors it caught and
\* dropped.
NoCall == [name |-> None, args |-> EmptyObject]
NoTool ==
  [call |-> NoCall, step |-> "idle", count |-> 0, waits |-> <<>>,
   queries |-> <<>>, spaces |-> <<>>, ranked |-> <<>>, related |-> <<>>,
   idx |-> 0, requests |-> <<>>, ignored |-> {}]

\* No tool result: no invocation has settled since the last one started.
NoToolResult ==
  [kind |-> "none", call |-> NoCall, isError |-> FALSE, text |-> "",
   results |-> <<>>, requests |-> <<>>, raised |-> {}, ignored |-> {}]

\* What a handler does next: return a result ({content: [{type: "text",
\* text}], isError}; `results` is the list the text shows and `raised` the
\* message of the client error the handler caught, if any; smart_search
\* adds the messages it ignored), call a client operation and await it, or
\* await a promise that is already resolved.
Returns(isError, text, results, raised) ==
  [do |-> "return", isError |-> isError, text |-> text, results |-> results,
   raised |-> raised]
Calls(o, t) == [do |-> "call", op |-> o, tool |-> t]
Yields(t) == [do |-> "yield", tool |-> t]

\* catch (error) { return { content: [... prefix + error.message], isError: true } }
\* for an error r thrown by a client operation.
CaughtError(prefix, r) == Returns(TRUE, prefix \o r.message, <<>>, {r.message})

\* The same catch for the TypeError of reading property `prop` of undefined.
CaughtTypeError(prefix, prop) ==
  Returns(TRUE,
          prefix \o "Cannot read properties of undefined (reading '"
                 \o prop \o "')",
          <<>>, {})

\* The handlers' tests before their try block: the message of the Error
\* thrown, if any.
Validation(call) ==
  LET args == call.args
      Throws(message) == [ok |-> FALSE, message |-> message]
      Passes == [ok |-> TRUE, message |-> ""]
  IN
  CASE call.name = "search_content" ->
         IF args.query = ""
         THEN Throws("Query is required and must be a string")
         ELSE IF "space_id" \in DOMAIN args /\ args.space_id # ""
                 /\ ~validateUUID(args.space_id)
         THEN Throws("Invalid space ID format")
         ELSE Passes
    [] call.name = "get_space_info" ->
         IF args.space_id = "" \/ ~validateUUID(args.space_id)
         THEN Throws("Invalid space ID: " \o args.space_id)
         ELSE Passes
    [] call.name = "create_structured_note" ->
         IF ~validateUUID(args.space_id)
         THEN Throws("Invalid space ID format") ELSE Passes
    [] call.name = "save_weblink" ->
         IF ~validateUUID(args.spaceId) THEN Throws("Invalid space ID format")
         ELSE IF ~validateUrl(args.url) THEN Throws("Invalid URL format")
         ELSE Passes
    [] call.name = "add_to_daily_note" ->
         IF ~validateUUID(args.spaceId) THEN Throws("Invalid space ID format")
         ELSE IF args.content = ""
         THEN Throws("Content is required and must be a string")
         ELSE Passes
    [] OTHER -> Passes

\* client.getSpaces()
GetSpaces == [name |-> "getSpaces", options |-> EmptyObject]

\* spaces.map(s => s.id)
IdsOf(spaces) == [i \in 1..Len(spaces) |-> spaces[i].id]

\* The search_content handler with the getSpaces call dropped when a
\* space_id is given.
search_contentSkippingSpaces(t, rs) ==
  LET args == t.call.args
      prefix == "Search failed: "
      given == "space_id" \in DOMAIN args /\ args.space_id # ""
      Search(spaceIds) ==
        [name |-> "searchContent",
         options |->
           (IF "objectTypes" \in DOMAIN args
            THEN [structureIds |-> args.objectTypes] ELSE EmptyObject)
           @@ [query |-> args.query, spaceIds |-> spaceIds,
               mode |-> IF "mode" \in DOMAIN args /\ args.mode # ""
                        THEN args.mode ELSE "fullText"]]
  IN
  IF t.step = "start"
  THEN IF given
       THEN Calls(Search(<<args.space_id>>), [t EXCEPT !.step = "search"])
       ELSE Calls(GetSpaces, [t EXCEPT !.step = "spaces"])
  ELSE IF rs[1].kind = "throw" THEN CaughtError(prefix, rs[1])
  ELSE IF t.step = "spaces"
  THEN IF ~rs[1].value.defined THEN CaughtTypeError(prefix, "map")
       ELSE Calls(Search(IdsOf(rs[1].value.value)),
                  [t EXCEPT !.step = "search", !.waits = <<>>])
  ELSE IF ~rs[1].value.defined THEN CaughtTypeError(prefix, "length")
  ELSE IF Len(rs[1].value.value) = 0
  THEN Returns(FALSE, "No results found for \"" \o args.query \o "\"", <<>>, {})
  ELSE Returns(FALSE, FormatResults(rs[1].value.value, args.query),
               rs[1].value.value, {})

\* The search_content handler after validation; rs holds what the awaited
\* client call settled with.
search_content(t, rs) ==
  LET args == t.call.args
      prefix == "Search failed: "
      given == "space_id" \in DOMAIN args /\ args.space_id # ""
      Search(spaceIds) ==
        [name |-> "searchContent",
         options |->
           (IF "objectTypes" \in DOMAIN args
            THEN [structureIds |-> args.objectTypes] ELSE EmptyObject)
           @@ [query |-> args.query, spaceIds |-> spaceIds,
               mode |-> IF "mode" \in DOMAIN args /\ args.mode # ""
                        THEN args.mode ELSE "fullText"]]
  IN
  IF t.step = "start" THEN Calls(GetSpaces, [t EXCEPT !.step = "spaces"])
  ELSE IF rs[1].kind = "throw" THEN CaughtError(prefix, rs[1])
  ELSE IF t.step = "spaces"
  THEN IF ~given /\ ~rs[1].value.defined THEN CaughtTypeError(prefix, "map")
       ELSE Calls(Search(IF given THEN <<args.space_id>>
                         ELSE IdsOf(rs[1].value.value)),
                  [t EXCEPT !.step = "search", !.waits = <<>>])
  ELSE IF ~rs[1].value.defined THEN CaughtTypeError(prefix, "length")
  ELSE IF Len(rs[1].value.value) = 0
  THEN Returns(FALSE, "No results found for \"" \o args.query \o "\"", <<>>, {})
  ELSE Returns(FALSE, FormatResults(rs[1].value.value, args.query),
               rs[1].value.value, {})

\* The list_spaces handler without its try/catch: a failure of getSpaces
\* leaves the handler as a thrown error.
list_spacesUncaught(t, rs) ==
  IF t.step = "start" THEN Calls(GetSpaces, [t EXCEPT !.step = "spaces"])
  ELSE IF rs[1].kind = "throw"
  THEN [do |-> "throw", message |-> rs[1].message, raised |-> {rs[1].message}]
  ELSE IF ~rs[1].value.defined
  THEN [do |-> "throw", raised |-> {},
        message |-> "Cannot read properties of undefined (reading 'map')"]
  ELSE Returns(FALSE, "Your Capacities Spaces:\n\n", <<>>, {})

\* The list_spaces handler.
list_spaces(t, rs) ==
  LET prefix == "Failed to retrieve spaces: " IN
  IF t.step = "start" THEN Calls(GetSpaces, [t EXCEPT !.step = "spaces"])
  ELSE IF rs[1].kind = "throw" THEN CaughtError(prefix, rs[1])
  ELSE IF ~rs[1].value.defined THEN CaughtTypeError(prefix, "map")
  ELSE LET spaces == rs[1].value.value IN
       IF \E i \in 1..Len(spaces) : "icon" \notin DOMAIN spaces[i]
       THEN CaughtTypeError(prefix, "val")
       ELSE Returns(FALSE,
                    "Your Capacities Spaces:\n\n"
                      \o Join([i \in 1..Len(spaces) |->
                                 "**" \o Str(spaces[i], "title") \o "**\nID: "
                                   \o Str(spaces[i], "id") \o "\nIcon: "
                                   \o Str(spaces[i].icon, "val")],
                              "\n\n"),
                    <<>>, {})

\* The text get_space_info shows for one structure.
StructureText(structure) ==
  "**" \o structure.title \o "** (" \o structure.pluralName \o ")\nID: "
    \o structure.id \o "\n\nProperties:\n"
    \o Join([i \in 1..Len(structure.propertyDefinitions) |->
               "- " \o structure.propertyDefinitions[i].name \o " ("
                    \o structure.propertyDefinitions[i].dataType \o ")"],
            "\n")
    \o "\n\nCollections:\n"
    \o Join([i \in 1..Len(structure.collections) |->
               "- " \o structure.collections[i].title],
            "\n")

\* The get_space_info handler after validation.
get_space_info(t, rs) ==
  LET prefix == "Failed to get space info: " IN
  IF t.step = "start"
  THEN Calls([name |-> "getSpaceInfo",
              options |-> [spaceId |-> t.call.args.space_id]],
             [t EXCEPT !.step = "info"])
  ELSE IF rs[1].kind = "throw" THEN CaughtError(prefix, rs[1])
  ELSE LET spaceInfo == rs[1].value.value IN
       IF "structures" \notin DOMAIN spaceInfo
       THEN CaughtTypeError(prefix, "map")
       ELSE Returns(FALSE,
                    "Space Information:\n\n"
                      \o Join([i \in 1..Len(spaceInfo.structures) |->
                                 StructureText(spaceInfo.structures[i])],
                              "\n\n---\n\n"),
                    <<>>, {})

\* The text create_structured_note appends for a template (the meeting
\* template, which carries the day's date, is not among the inputs).
TemplateText(template, title) ==
  CASE template = "daily-reflection" ->
         "### Today's Accomplishments\n- \n- \n- \n\n"
           \o "### Challenges Faced\n- \n- \n\n"
           \o "### Tomorrow's Priorities\n- [ ] \n- [ ] \n- [ ] \n\n"
           \o "### Insights & Learning\n"
    [] template = "task-list" ->
         "## High Priority\n- [ ] \n- [ ] \n\n"
           \o "## Medium Priority\n- [ ] \n- [ ] \n\n"
           \o "## Low Priority\n- [ ] \n- [ ] \n\n"
           \o "## Completed Today\n- [x] \n"

\* The create_structured_note handler after validation (the emoji that
\* open its texts are left out).
create_structured_note(t, rs) ==
  LET args == t.call.args
      structuredContent ==
        "# " \o args.title \o "\n\n" \o TemplateText(args.template, args.title)
          \o (IF "content" \in DOMAIN args /\ args.content # ""
              THEN "\n## Additional Notes\n" \o args.content \o "\n" ELSE "")
  IN
  IF t.step = "start"
  THEN Calls([name |-> "saveToDailyNote",
              options |-> [spaceId |-> args.space_id,
                           content |-> structuredContent,
                           noTimestamp |-> FALSE]],
             [t EXCEPT !.step = "save"])
  ELSE IF rs[1].kind = "throw"
  THEN CaughtError("Failed to create structured note: ", rs[1])
  ELSE Returns(FALSE,
               "Created structured " \o args.template \o " note \""
                 \o args.title \o "\" in your daily notes for space "
                 \o args.space_id \o "\n\nContent preview:\n"
                 \o SubSeq(structuredContent, 1,
                           Min(200, Len(structuredContent)))
                 \o "...",
               <<>>, {})

\* The save_weblink handler after validation.
save_weblink(t, rs) ==
  LET args == t.call.args
      prefix == "Failed to save weblink: "
  IN
  IF t.step = "start"
  THEN Calls([name |-> "saveWeblink",
              options |-> [k \in DOMAIN args \cap
                                   {"spaceId", "url", "title", "description",
                                    "tags", "notes"} |-> args[k]]],
             [t EXCEPT !.step = "save"])
  ELSE IF rs[1].kind = "throw" THEN CaughtError(prefix, rs[1])
  ELSE LET res == rs[1].value.value IN
       IF "tags" \notin DOMAIN res THEN CaughtTypeError(prefix, "join")
       ELSE Returns(FALSE,
                    "Successfully saved weblink!\n\n**Title:** "
                      \o Str(res, "title") \o "\n**URL:** " \o args.url
                      \o "\n**ID:** " \o Str(res, "id") \o "\n**Tags:** "
                      \o (IF Join(res.tags, ", ") = "" THEN "None"
                          ELSE Join(res.tags, ", "))
                      \o "\n**Description:** "
                      \o (IF "description" \in DOMAIN res /\ res.description # ""
                          THEN res.description ELSE "Auto-generated"),
                    <<>>, {})

\* The add_to_daily_note handler after validation.
add_to_daily_note(t, rs) ==
  LET args == t.call.args
      noTimestamp == "noTimestamp" \in DOMAIN args /\ args.noTimestamp
  IN
  IF t.step = "start"
  THEN Calls([name |-> "saveToDailyNote",
              options |-> [spaceId |-> args.spaceId, content |-> args.content,
                           noTimestamp |-> noTimestamp]],
             [t EXCEPT !.step = "save"])
  ELSE IF rs[1].kind = "throw"
  THEN CaughtError("Failed to add to daily note: ", rs[1])
  ELSE Returns(FALSE,
               "Successfully added content to today's daily note"
                 \o (IF noTimestamp THEN "" ELSE " with timestamp")
                 \o "!\n\nContent added:\n" \o args.content,
               <<>>, {})

\* client.searchContent({ query, spaceIds, mode: "fullText" })
FullTextSearch(query, spaceIds) ==
  [name |-> "searchContent",
   options |-> [query |-> query, spaceIds |-> spaceIds, mode |-> "fullText"]]

\* The end of the smart_search handler: the related content, deduplicated,
\* is pushed onto the ranked results, and the first maxResults are shown.
SmartSearchEnd(t, ranked, relatedContent) ==
  LET topResults ==
        SliceTo(ranked \o deduplicateResults(relatedContent),
                t.call.args.maxResults)
  IN Returns(FALSE, formatSmartSearchResults(topResults, t.call.args.query),
             topResults, {})
       @@ [ignored |-> t.ignored]

\* The loop of findRelatedContent from its i-th round on, over the first
\* three ranked results: a result whose title has key terms gets a search
\* that is awaited, one without is passed over; after the last round
\* findRelatedContent returns and the handler ends.
RelatedFrom(t, i, relatedContent) ==
  LET topResults == SliceTo(t.ranked, 3)
      rounds == {j \in i..Len(topResults) :
                   Len(extractKeyTerms(topResults[j].title)) > 0}
  IN
  IF rounds = {} THEN SmartSearchEnd(t, t.ranked, relatedContent)
  ELSE LET j == CHOOSE k \in rounds : \A l \in rounds : k <= l IN
       Calls(FullTextSearch(Join(extractKeyTerms(topResults[j].title), " "),
                            <<topResults[j].spaceId>>),
             [t EXCEPT !.step = "related", !.idx = j, !.waits = <<>>,
                       !.related = relatedContent])

\* The smart_search handler.
smart_search(t, rs) ==
  LET args == t.call.args
      prefix == "Smart search failed: "
  IN
  CASE t.step = "start" -> Yields([t EXCEPT !.step = "expand"])
    [] t.step = "expand" ->
         Calls(GetSpaces,
               [t EXCEPT !.step = "spaces", !.queries = expandSearchQuery(args)])
    [] t.step = "spaces" ->
         IF rs[1].kind = "throw" THEN CaughtError(prefix, rs[1])
         ELSE IF ~rs[1].value.defined THEN CaughtTypeError(prefix, "map")
         ELSE Calls(FullTextSearch(t.queries[1], IdsOf(rs[1].value.value)),
                    [t EXCEPT !.step = IF Len(t.queries) > 1
                                       THEN "launch" ELSE "searches",
                              !.spaces = IdsOf(rs[1].value.value),
                              !.queries = Tail(t.queries),
                              !.waits = <<>>])
    [] t.step = "launch" ->
         Calls(FullTextSearch(t.queries[1], t.spaces),
               [t EXCEPT !.step = IF Len(t.queries) > 1
                                  THEN "launch" ELSE "searches",
                         !.queries = Tail(t.queries)])
    [] t.step = "searches" ->
         IF \E i \in 1..Len(rs) : rs[i].kind = "throw"
         THEN CaughtError(prefix,
                          rs[CHOOSE i \in 1..Len(rs) : rs[i].kind = "throw"])
         ELSE IF \E i \in 1..Len(rs) : ~rs[i].value.defined
         THEN CaughtTypeError(prefix, "id")
         ELSE LET flatResults == Flat([i \in 1..Len(rs) |-> rs[i].value.value])
                  rankedResults ==
                    rankByRelevance(deduplicateResults(flatResults), args.query)
              IN IF args.includeRelated
                 THEN RelatedFrom([t EXCEPT !.ranked = rankedResults], 1, <<>>)
                 ELSE SmartSearchEnd(t, rankedResults, <<>>)
    [] t.step = "related" ->
         LET found == SliceTo(t.ranked, 3)[t.idx] IN
         IF rs[1].kind = "throw"
         THEN RelatedFrom([t EXCEPT !.ignored = @ \cup {rs[1].message}],
                          t.idx + 1, t.related)
         ELSE IF ~rs[1].value.defined
         THEN RelatedFrom(t, t.idx + 1, t.related)
         ELSE RelatedFrom(t, t.idx + 1,
                          t.related
                            \o SliceTo(SelectSeq(rs[1].value.value,
                                                 LAMBDA r : r.id # found.id),
                                       2))

\* The handler of each tool.
Handler(t, rs) ==
  CASE t.call.name = "search_content"         -> search_content(t, rs)
    [] t.call.name = "list_spaces"            -> list_spaces(t, rs)
    [] t.call.name = "get_space_info"         -> get_space_info(t, rs)
    [] t.call.name = "create_structured_note" -> create_structured_note(t, rs)
    [] t.call.name = "save_weblink"           -> save_weblink(t, rs)
    [] t.call.name = "add_to_daily_note"      -> add_to_daily_note(t, rs)
    [] t.call.name = "smart_search"           -> smart_search(t, rs)

\* The client call of caller p has settled.
Settled(p) == pc[p] = "idle" /\ "settled" \in DOMAIN opResult[p]

\* A client call that has not settled.
Pending == [kind |-> "pending"]

\* What the client calls the handler awaits have settled with, in order.
Awaited ==
  [i \in 1..Len(tool.waits) |->
     IF Settled(tool.waits[i]) THEN opResult[tool.waits[i]].settled
     ELSE Pending]

\* The handler can go on: it stands in a synchronous run (the map that
\* starts the searches) or at an await whose promise is settled: the awaited
\* call has settled, or under Promise.all every call has returned or one has
\* thrown.
ContinuationPending ==
  \/ tool.step \in {"expand", "launch"}
  \/ /\ Len(tool.waits) > 0
     /\ \/ \A i \in 1..Len(tool.waits) : Settled(tool.waits[i])
        \/ \E i \in 1..Len(tool.waits) : Awaited[i].kind = "throw"

\* expandedQueries.map(q => client.searchContent(...)) is running.
Launching == tool.step = "launch"

\* A 2xx answer without a body.
EmptyOk ==
  [status |-> 204, contentType |-> None, contentLength |-> "0", body |-> ""]

\* A JSON answer to POST /search with three results.
OkResults ==
  [status |-> 200, contentType |-> "application/json",
   contentLength |-> ToString(Len(ResultsBody)), body |-> ResultsBody]

\* A 429 answer.
TooManyRequests ==
  [status |-> 429, contentType |-> "text/html", contentLength |-> None,
   body |-> "<html>"]

\* The responses the tools' requests receive.
ToolResponses == {OkJson, OkResults, EmptyOk, TooManyRequests}

\* The space ids the tools are invoked with: two of the UUID form (one in
\* upper case), one with a version digit the form excludes, a short one and
\* the empty string.
ToolSpaceIds == {SpaceUUID, SpaceUUIDUpper, SpaceUUIDv6, "s1", ""}

\* The tool invocations: each tool with arguments its validation accepts
\* and arguments it refuses.
ToolCalls ==
  {[name |-> "list_spaces", args |-> EmptyObject]}
    \cup {[name |-> "get_space_info", args |-> [space_id |-> id]] :
            id \in ToolSpaceIds}
    \cup {[name |-> "search_content",
           args |-> s @@ [query |-> q, mode |-> "fullText"]] :
            q \in {"plan", ""},
            s \in {EmptyObject} \cup {[space_id |-> id] : id \in ToolSpaceIds}}
    \cup {[name |-> "create_structured_note",
           args |-> [space_id |-> id, title |-> "T",
                     template |-> "daily-reflection"]] :
            id \in {SpaceUUID, SpaceUUIDv6}}
    \cup {[name |-> "save_weblink", args |-> [spaceId |-> id, url |-> u]] :
            id \in {SpaceUUID, "s1"}, u \in {"https://example.org", "example"}}
    \cup {[name |-> "add_to_daily_note",
           args |-> [spaceId |-> id, content |-> c]] :
            id \in {SpaceUUID, "s1"}, c \in {"hello", ""}}
    \cup {[name |-> "smart_search",
           args |-> x @@ [query |-> "plan", includeRelated |-> b,
                          maxResults |-> n]] :
            x \in {EmptyObject, [context |-> "beta"]},
            b \in BOOLEAN, n \in {1, 3, 10}}

\* The search_content invocations of SearchSpec, and the responses their
\* requests receive.
SearchCalls ==
  {[name |-> "search_content",
    args |-> s @@ [query |-> "plan", mode |-> "fullText"]] :
     s \in {EmptyObject, [space_id |-> SpaceUUID]}}
SearchResponses == {OkJson, OkResults, TooManyRequests}

(* ------------------------------ actions -------------------------------- *)

NoResult == [kind |-> "none"]

\* No response: fetch has not resolved (yet, or at all).
NoResponse == [status |-> -1]

\* No request: fetch has not been called.
NoRequest == [url |-> None]

\* The state after new CapacitiesClient({ apiToken: token, baseUrl }), with
\* the callers of `pool` about to use the client.
InitWith(pool, token) ==
  /\ apiToken = token
  /\ windows = <<>>
  /\ pc = [p \in pool |-> "idle"]
  /\ endpoint = [p \in pool |-> None]
  /\ endpointType = [p \in pool |-> None]
  /\ timer = [p \in pool |-> 0]
  /\ response = [p \in pool |-> NoResponse]
  /\ result = [p \in pool |-> NoResult]
  /\ calls = [general |-> 0, other |-> 0]
  /\ sent = [c \in Categories |-> <<>>]
  /\ admitted = [c \in Categories |-> 0]
  /\ arrivals = [c \in Categories |-> 0]
  /\ barrier = [p \in pool |-> -1]
  /\ op = [p \in pool |-> NoOp]
  /\ request = [p \in pool |-> NoRequest]
  /\ opResult = [p \in pool |-> NoResult]
  /\ slots = [p \in pool |-> 0]
  /\ fetches = [p \in pool |-> 0]
  /\ tokenLogged = FALSE
  /\ tool = NoTool
  /\ toolResult = NoToolResult

\* new CapacitiesClient({ apiToken, baseUrl }) with the token of the
\* concurrent specifications, for the callers of Spec.
Init == InitWith(Callers, "tok-A")

\* The same for the callers of BurstSpec.
InitBurst == InitWith(BurstCallers, "tok-A")

\* The same for the caller of GatewaySpec.
InitGateway == InitWith(GatewayCallers, "tok-A")

\* A continuation is queued as a microtask: one of makeRequest (a caller was
\* granted its slot and has not issued its request yet) or one of a tool's
\* handler.  The event loop
\* runs it before any timer callback, any I/O callback and any wait.
MicrotaskPending ==
  \/ \E p \in AllCallers : pc[p] = "granted"
  \/ ContinuationPending

\* makeRequest(endpoint, options) up to its first suspension: classify,
\* then the synchronous run of waitForSlot.
MakeRequest(p, ep) ==
  /\ pc[p] = "idle"
  /\ endpoint' = [endpoint EXCEPT ![p] = ep]
  /\ endpointType' = [endpointType EXCEPT ![p] = getEndpointType(ep)]
  /\ response' = [response EXCEPT ![p] = NoResponse]
  /\ result' = [result EXCEPT ![p] = NoResult]
  /\ request' = [request EXCEPT ![p] = NoRequest]
  /\ opResult' = [opResult EXCEPT ![p] = NoResult]
  /\ fetches' = [fetches EXCEPT ![p] = 0]
  /\ waitForSlot(p, getEndpointType(ep))
  /\ UNCHANGED <<sent, apiToken, tokenLogged>>

\* Callers are interchangeable: a new call takes the lowest idle caller of
\* the pool.
NextIdle(p, pool) ==
  p \in pool /\ pc[p] = "idle" /\ \A q \in pool : q < p => pc[q] # "idle"

\* The calls one behaviour of Spec or FacadeSpec starts, general ones and
\* others.
CallBudget == [general |-> MaxCalls, other |-> MaxOtherCalls]

\* A facade operation called while calls of its kind are left.
Call(p, ep) ==
  LET kind == IF getEndpointType(ep) = "general" THEN "general" ELSE "other" IN
  /\ NextIdle(p, Callers)
  /\ calls[kind] < CallBudget[kind]
  /\ calls' = [calls EXCEPT ![kind] = @ + 1]
  /\ MakeRequest(p, ep)
  /\ UNCHANGED <<op, tool, toolResult>>

\* A facade operation called, with no bound on the number of calls.
Request(p, ep) ==
  /\ NextIdle(p, Callers)
  /\ MakeRequest(p, ep)
  /\ UNCHANGED <<calls, op, tool, toolResult>>

\* performContentAnalysis: spaceIds.map(id => client.getSpaceInfo(id)) starts
\* one getSpaceInfo call for each of NBurst space ids, in order, in one
\* synchronous run.
Launch(p, id) ==
  /\ p = calls.general + 1
  /\ p \in BurstCallers
  /\ calls' = [calls EXCEPT !.general = @ + 1]
  /\ MakeRequest(p, "/space-info?spaceid=" \o id)
  /\ UNCHANGED <<op, tool, toolResult>>

\* The synchronous run of Launch is over.
Launched == calls.general = NBurst

\* makeRequest called by the single caller of GatewaySpec.
GatewayCall(p, ep) ==
  /\ p \in GatewayCallers
  /\ calls.other < MaxGatewayCalls
  /\ calls' = [calls EXCEPT !.other = @ + 1]
  /\ MakeRequest(p, ep)
  /\ UNCHANGED <<op, tool, toolResult>>

\* A facade operation o is invoked by the caller of FacadeSpec, while
\* calls of its kind are left.
Invoke(p, o) ==
  LET kind == IF getEndpointType(EndpointOf(o)) = "general"
              THEN "general" ELSE "other" IN
  /\ NextIdle(p, FacadeCallers)
  /\ calls[kind] < CallBudget[kind]
  /\ calls' = [calls EXCEPT ![kind] = @ + 1]
  /\ op' = [op EXCEPT ![p] = o]
  /\ MakeRequest(p, EndpointOf(o))
  /\ UNCHANGED toolVars

\* The variables of the client and of its rate limiter.
clientVars ==
  <<windows, pc, endpoint, endpointType, timer, response, result, calls,
    sent, admitted, arrivals, barrier, apiToken, op, request, opResult,
    slots, fetches, tokenLogged>>

\* A handler calls the facade operation o: caller p runs it up to its first
\* suspension.
Issue(p, o) ==
  /\ op' = [op EXCEPT ![p] = o]
  /\ MakeRequest(p, EndpointOf(o))
  /\ UNCHANGED calls

\* The handler of invocation t does d: it returns (or throws) and the
\* invocation is over, or it calls a client operation on the lowest idle
\* caller and awaits it, or it awaits a resolved promise.  `prev` is the
\* tool result standing while the invocation goes on.
Apply(d, t, prev) ==
  IF d.do \in {"return", "throw"}
  THEN /\ toolResult' =
            [kind |-> d.do, call |-> t.call,
             isError |-> d.do = "return" /\ d.isError,
             text |-> IF d.do = "return" THEN d.text ELSE d.message,
             results |-> IF d.do = "return" THEN d.results ELSE <<>>,
             requests |-> t.requests, raised |-> d.raised,
             ignored |-> IF "ignored" \in DOMAIN d THEN d.ignored ELSE {}]
       /\ tool' = [NoTool EXCEPT !.count = t.count]
       /\ UNCHANGED clientVars
  ELSE IF d.do = "call"
  THEN /\ \E p \in AllCallers :
            /\ NextIdle(p, AllCallers)
            /\ Issue(p, d.op)
            /\ tool' = [d.tool EXCEPT !.waits = Append(@, p),
                                      !.requests = Append(@, d.op.name)]
       /\ toolResult' = prev
  ELSE /\ tool' = d.tool
       /\ toolResult' = prev
       /\ UNCHANGED clientVars

\* The MCP server dispatches invocation c to its handler, which runs up to
\* its first await: an Error thrown by the validation ends the invocation.
\* An invocation arrives when the previous one is over and its client calls
\* have settled, while fewer than `budget` invocations were made.
ToolCall(c, budget) ==
  LET t == [NoTool EXCEPT !.call = c, !.step = "start",
                          !.count = tool.count + 1] IN
  /\ tool.step = "idle"
  /\ tool.count < budget
  /\ ~MicrotaskPending
  /\ \A p \in AllCallers : pc[p] = "idle"
  /\ IF ~Validation(c).ok
     THEN /\ toolResult' = [NoToolResult EXCEPT !.kind = "throw", !.call = c,
                                                !.text = Validation(c).message]
          /\ tool' = [NoTool EXCEPT !.count = tool.count + 1]
          /\ UNCHANGED clientVars
     ELSE Apply(Handler(t, <<>>), t, NoToolResult)

\* The handler resumes after its await, or goes on in its synchronous run.
ToolContinue ==
  /\ ContinuationPending
  /\ Apply(Handler(tool, Awaited), tool, toolResult)


\* Promise.all over the concurrent calls of a tool has rejected: one of the
\* calls has failed, and the tool has returned its error.
Abandoned == \E p \in AllCallers : result[p].kind = "throw"

\* The timer's callback with a cancellation: a caller whose tool has already
\* failed does not resume.
TimerFireUnlessAbandoned(p) ==
  /\ ~Abandoned
  /\ ~MicrotaskPending
  /\ pc[p] = "waiting"
  /\ timer[p] - now <= TimerSlackMs
  /\ Resume(p)
  /\ UNCHANGED <<endpoint, endpointType, response, result, calls, sent,
                 apiToken, op, request, opResult, fetches, tokenLogged,
                 tool, toolResult>>

\* The setTimeout callback of a suspended caller runs, the caller resumes
\* and retries.
TimerFire(p) ==
  /\ ~MicrotaskPending
  /\ pc[p] = "waiting"
  /\ timer[p] - now <= TimerSlackMs
  /\ Resume(p)
  /\ UNCHANGED <<endpoint, endpointType, response, result, calls, sent,
                 apiToken, op, request, opResult, fetches, tokenLogged,
                 tool, toolResult>>

\* makeRequest without the await on waitForSlot: the request is issued
\* whether or not the slot was granted.
FetchBeforeGrant(p) ==
  /\ pc[p] \in {"granted", "waiting"}
  /\ pc' = [pc EXCEPT ![p] = "inflight"]
  /\ sent' = [sent EXCEPT ![endpointType[p]] = Append(@, now)]
  /\ request' = [request EXCEPT ![p] =
                    FetchArgs(apiToken, endpoint[p], RequestInitOf(op[p]))]
  /\ fetches' = [fetches EXCEPT ![p] = @ + 1]
  /\ UNCHANGED <<windows, endpoint, endpointType, timer, response, result,
                 calls, admitted, arrivals, barrier, apiToken, op, opResult,
                 slots, tokenLogged, tool, toolResult>>

\* makeRequest resumes after `await waitForSlot` and issues the request.
Fetch(p) ==
  /\ pc[p] = "granted"
  /\ pc' = [pc EXCEPT ![p] = "inflight"]
  /\ sent' = [sent EXCEPT ![endpointType[p]] = Append(@, now)]
  /\ request' = [request EXCEPT ![p] =
                    FetchArgs(apiToken, endpoint[p], RequestInitOf(op[p]))]
  /\ fetches' = [fetches EXCEPT ![p] = @ + 1]
  /\ UNCHANGED <<windows, endpoint, endpointType, timer, response, result,
                 calls, admitted, arrivals, barrier, apiToken, op, opResult,
                 slots, tokenLogged, tool, toolResult>>

\* makeRequest settling, with the slot given back when the request failed.
FinishRefunding(p, r, outcome) ==
  /\ pc' = [pc EXCEPT ![p] = "idle"]
  /\ response' = [response EXCEPT ![p] = r]
  /\ result' = [result EXCEPT ![p] = outcome]
  /\ endpoint' = [endpoint EXCEPT ![p] = None]
  /\ endpointType' = [endpointType EXCEPT ![p] = None]
  /\ barrier' = [barrier EXCEPT ![p] = -1]
  /\ request' = [request EXCEPT ![p] = NoRequest]
  /\ opResult' = [opResult EXCEPT ![p] =
                     [op |-> op[p].name, settled |-> Facade(op[p], outcome)]]
  /\ op' = [op EXCEPT ![p] = NoOp]
  /\ tokenLogged' =
       \/ tokenLogged
       \/ outcome.kind = "throw" /\ Includes(outcome.message, apiToken)
       \/ /\ r.status # -1
          /\ \E i \in DOMAIN DebugLog(endpoint[p], r) :
               \E str \in LogStrings(DebugLog(endpoint[p], r)[i]) :
                 Includes(str, apiToken)
  /\ windows' = IF outcome.kind = "throw"
                THEN [windows EXCEPT ![endpointType[p]].requests = @ - 1]
                ELSE windows
  /\ UNCHANGED <<timer, calls, sent, admitted, arrivals, apiToken,
                 slots, fetches, tool, toolResult>>

\* makeRequest of caller p settles with `outcome` after fetch resolved with
\* r (NoResponse when it rejected); the other locals and the history of the
\* call are dropped.
Finish(p, r, outcome) ==
  /\ pc' = [pc EXCEPT ![p] = "idle"]
  /\ response' = [response EXCEPT ![p] = r]
  /\ result' = [result EXCEPT ![p] = outcome]
  /\ endpoint' = [endpoint EXCEPT ![p] = None]
  /\ endpointType' = [endpointType EXCEPT ![p] = None]
  /\ barrier' = [barrier EXCEPT ![p] = -1]
  /\ request' = [request EXCEPT ![p] = NoRequest]
  /\ opResult' = [opResult EXCEPT ![p] =
                     [op |-> op[p].name, settled |-> Facade(op[p], outcome)]]
  /\ op' = [op EXCEPT ![p] = NoOp]
  /\ tokenLogged' =
       \/ tokenLogged
       \/ outcome.kind = "throw" /\ Includes(outcome.message, apiToken)
       \/ /\ r.status # -1
          /\ \E i \in DOMAIN DebugLog(endpoint[p], r) :
               \E str \in LogStrings(DebugLog(endpoint[p], r)[i]) :
                 Includes(str, apiToken)
  /\ UNCHANGED <<windows, timer, calls, sent, admitted, arrivals, apiToken,
                 slots, fetches, tool, toolResult>>

\* The response r arrives; on 429 makeRequest waits for a slot again and
\* re-sends the request.
RespondRetrying(p, r) ==
  /\ ~MicrotaskPending
  /\ pc[p] = "inflight"
  /\ IF r.status = 429
     THEN /\ waitForSlot(p, endpointType[p])
          /\ UNCHANGED <<endpoint, endpointType, response, result, calls, sent,
                         apiToken, op, request, opResult, fetches, tokenLogged,
                         tool, toolResult>>
     ELSE Finish(p, r, Settle(r))

\* The response r arrives and makeRequest returns or throws.
Respond(p, r) ==
  /\ ~MicrotaskPending
  /\ pc[p] = "inflight"
  /\ Finish(p, r, Settle(r))

\* fetch() rejects (network unreachable, timeout): nothing in makeRequest
\* catches the rejection, so makeRequest rejects with it.
FetchReject(p) ==
  /\ ~MicrotaskPending
  /\ pc[p] = "inflight"
  /\ Finish(p, NoResponse, FetchFailed)

\* d milliseconds pass.
Tick(d) ==
  /\ ~MicrotaskPending
  /\ windows' = [c \in DOMAIN windows |->
                   [windows[c] EXCEPT !.resetTime = Max(@ - d, 0)]]
  /\ timer' = [p \in AllCallers |-> Max(timer[p] - d, 0)]
  /\ barrier' = [p \in AllCallers |->
                   IF barrier[p] = -1 THEN -1 ELSE Max(barrier[p] - d, 0)]
  /\ sent' = [c \in Categories |->
                LET aged == [i \in 1..Len(sent[c]) |-> sent[c][i] - d]
                IN SelectSeq(aged, LAMBDA t : t > now - limits[c].windowMs)]
  /\ UNCHANGED <<pc, endpoint, endpointType, response, result, calls,
                 admitted, arrivals, apiToken, op, request, opResult, slots,
                 fetches, tokenLogged, tool, toolResult>>

(* --------------------------- specifications ---------------------------- *)

\* Concurrent callers on the three categories, a bounded number of calls.
Next ==
  \/ \E p \in Callers : \E ep \in CommonEndpoints : Call(p, ep)
  \/ \E p \in Callers : TimerFire(p)
  \/ \E p \in Callers : Fetch(p)
  \/ \E p \in Callers : \E r \in CommonResponses : Respond(p, r)
  \/ \E p \in Callers : FetchReject(p)
  \/ Tick(TickMs)

Spec == Init /\ [][Next]_vars

\* Concurrent callers of one general endpoint, calls without end.
NextGeneral ==
  \/ \E p \in Callers : Request(p, "/spaces")
  \/ \E p \in Callers : TimerFire(p)
  \/ \E p \in Callers : Fetch(p)
  \/ \E p \in Callers : \E r \in CommonResponses : Respond(p, r)
  \/ \E p \in Callers : FetchReject(p)
  \/ Tick(TickMs)

GeneralSpec == Init /\ [][NextGeneral]_vars

\* GeneralSpec with the scheduling of the event loop: time advances, a due
\* timer's callback runs, a queued continuation runs.  Nothing makes a new
\* call arrive, and nothing makes the upstream answer.
LiveSpec ==
  /\ GeneralSpec
  /\ WF_vars(Tick(TickMs))
  /\ \A p \in Callers : WF_vars(TimerFire(p)) /\ WF_vars(Fetch(p))

\* One content analysis over NBurst spaces: its calls start in one
\* synchronous run, then proceed concurrently.  The upstream does not
\* answer while the callers queue (nothing bounds the time a fetch takes).
NextBurst ==
  \/ \E p \in BurstCallers : Launch(p, "s1")
  \/ \E p \in BurstCallers : Launched /\ TimerFire(p)
  \/ \E p \in BurstCallers : Launched /\ Fetch(p)
  \/ Launched /\ Tick(TickMs)

BurstSpec == InitBurst /\ [][NextBurst]_vars

\* The caller of a burst whose request fails.
FailingCallers == {1}

\* One content analysis over NBurst spaces in which the first call fails
\* (answered 429, or its fetch rejected) while others wait for a slot; the
\* other calls are not answered.  The event loop lets time advance, runs due
\* timer callbacks and queued continuations.
NextAbandon ==
  \/ \E p \in BurstCallers : Launch(p, "s1")
  \/ \E p \in BurstCallers : Launched /\ TimerFire(p)
  \/ \E p \in BurstCallers : Launched /\ Fetch(p)
  \/ \E p \in FailingCallers : \E r \in CommonResponses \ {OkJson} :
       Launched /\ Respond(p, r)
  \/ \E p \in FailingCallers : Launched /\ FetchReject(p)
  \/ Launched /\ Tick(TickMs)

AbandonSpec ==
  /\ InitBurst /\ [][NextAbandon]_vars
  /\ WF_vars(Launched /\ Tick(TickMs))
  /\ \A p \in BurstCallers :
       WF_vars(Launched /\ TimerFire(p)) /\ WF_vars(Launched /\ Fetch(p))

\* One caller, any path, any response.  Its MaxGatewayCalls calls stay below
\* every category's maxRequests, so it never suspends on a timer.
NextGateway ==
  \/ \E p \in GatewayCallers : \E ep \in Paths \cup FacadeEndpoints : GatewayCall(p, ep)
  \/ \E p \in GatewayCallers : Fetch(p)
  \/ \E p \in GatewayCallers : \E r \in Responses : Respond(p, r)
  \/ \E p \in GatewayCallers : FetchReject(p)
  \/ Tick(TickMs)

GatewaySpec == InitGateway /\ [][NextGateway]_vars

\* A client constructed with any token.
InitFacade == \E token \in Tokens : InitWith(FacadeCallers, token)

\* One caller of the facade operations, any options, the facade's responses.
NextFacade ==
  \/ \E p \in FacadeCallers : \E o \in Operations : Invoke(p, o)
  \/ \E p \in FacadeCallers : TimerFire(p)
  \/ \E p \in FacadeCallers : Fetch(p)
  \/ \E p \in FacadeCallers : \E r \in FacadeResponses : Respond(p, r)
  \/ \E p \in FacadeCallers : FetchReject(p)
  \/ Tick(TickMs)

FacadeSpec == InitFacade /\ [][NextFacade]_vars

\* The callers of ToolSpec: smart_search runs two searches at a time.
ToolCallers == 1..2

InitTool == InitWith(ToolCallers, "tok-A")

\* Tool invocations one after another, each with any arguments, their
\* requests answered by any of the tools' responses or not at all.
NextTool ==
  \/ \E c \in ToolCalls : ToolCall(c, MaxToolCalls)
  \/ ToolContinue
  \/ \E p \in ToolCallers : ~Launching /\ Fetch(p)
  \/ \E p \in ToolCallers : \E r \in ToolResponses : Respond(p, r)
  \/ \E p \in ToolCallers : FetchReject(p)
  \/ Tick(TickMs)

ToolSpec == InitTool /\ [][NextTool]_vars

\* The caller of SearchSpec.
SearchCallers == {1}

InitSearch == InitWith(SearchCallers, "tok-A")

\* MaxCalls invocations of search_content one after another, with and
\* without a space_id.
NextSearch ==
  \/ \E c \in SearchCalls : ToolCall(c, MaxCalls)
  \/ ToolContinue
  \/ \E p \in SearchCallers : TimerFire(p)
  \/ \E p \in SearchCallers : Fetch(p)
  \/ \E p \in SearchCallers : \E r \in SearchResponses : Respond(p, r)
  \/ \E p \in SearchCallers : FetchReject(p)
  \/ Tick(TickMs)

SearchSpec == InitSearch /\ [][NextSearch]_vars

(* ------------------------------ properties ---------------------------- *)

\* A caller whose waitForSlot call has resolved.
Resolved(p) == pc[p] \in {"granted", "inflight"}

\* C1: in every reachable state and for every category, the counter of the
\* stored window is at most the category's maxRequests, and so is the number
\* of callers admitted since that window was created.
C1_WindowBounded ==
  \A c \in Categories :
    /\ c \in DOMAIN windows => windows[c].requests <= limits[c].maxRequests
    /\ admitted[c] <= limits[c].maxRequests

\* C1 witness: a window is full, with as many callers admitted as its
\* counter says, while another caller of the category waits on it.
C1_Witness ==
  \E c \in DOMAIN windows : \E p \in Callers :
    /\ windows[c].requests = limits[c].maxRequests
    /\ admitted[c] = limits[c].maxRequests
    /\ pc[p] = "waiting" /\ endpointType[p] = c
    /\ now < windows[c].resetTime

\* C2 (as claimed): for each category, fewer than windowMs milliseconds
\* never hold more requests sent than the category's limit.
C2_SlidingLimit ==
  \A c \in Categories : Len(sent[c]) <= limits[c].maxRequests

\* C3: a call that arrived while its category's window was current and full
\* has not resolved as long as that window's resetTime lies ahead.
C3_NotBeforeReset ==
  \A p \in AllCallers :
    (Resolved(p) /\ barrier[p] # -1) => barrier[p] <= now

\* C3 witness: a caller that met a full window was resumed after that
\* window's resetTime and holds a slot.
C3_Witness ==
  \E p \in Callers :
    pc[p] = "granted" /\ barrier[p] # -1 /\ barrier[p] <= now

\* C4: as long as no more than maxRequests runs of waitForSlot have arrived
\* since the stored window was created, every one of them was admitted (none
\* suspended).
C4_NoDelayWithinBudget ==
  \A c \in Categories :
    arrivals[c] <= limits[c].maxRequests => admitted[c] = arrivals[c]

\* C4 witness: exactly maxRequests calls arrived in a window and all hold
\* or have used a slot.
C4_Witness ==
  \E c \in DOMAIN windows :
    /\ arrivals[c] = limits[c].maxRequests
    /\ admitted[c] = limits[c].maxRequests
    /\ \A p \in Callers : pc[p] # "waiting"

\* Caller p runs waitForSlot for category c in this step: a new call, or a
\* resumed caller that leaves the timer.
Enters(p, c) ==
  \/ pc[p] = "idle" /\ pc'[p] # "idle" /\ endpointType'[p] = c
  \/ pc[p] = "waiting" /\ pc'[p] # "waiting" /\ endpointType[p] = c

\* C5: a run of waitForSlot that finds the stored window at or past its
\* resetTime replaces it by {requests: 1, resetTime: now + windowMs} and
\* resolves at once, whoever else waits.
C5_ResetOnExpiry ==
  [][\A p \in AllCallers : \A c \in Categories :
       (Enters(p, c) /\ c \in DOMAIN windows /\ now >= windows[c].resetTime)
         => /\ windows'[c] = [requests |-> 1, resetTime |-> now + limits[c].windowMs]
            /\ pc'[p] = "granted"]_vars

\* C5 witness: a resumed waiter has just replaced the expired window while
\* another caller still waits on the old one.
C5_Witness ==
  \E p \in Callers : \E q \in Callers :
    /\ pc[p] = "granted" /\ barrier[p] # -1
    /\ pc[q] = "waiting" /\ endpointType[q] = endpointType[p]
    /\ windows[endpointType[p]] =
         [requests |-> 1,
          resetTime |-> now + limits[endpointType[p]].windowMs]

\* C6 (as claimed): with time advancing and timers firing, every suspended
\* call of waitForSlot eventually resolves.
C6_EventuallyResolves ==
  \A p \in Callers : (pc[p] = "waiting") ~> Resolved(p)

\* A new call arrives in this step.
Arrival == \E p \in Callers : pc[p] = "idle" /\ pc'[p] # "idle"

\* C6 (amended): waitForSlot settles in no other way than by resolving, and
\* if from some time on no new call arrives, every suspended call
\* eventually resolves.
C6_ResolvesOnceCallsCease ==
  /\ [][\A p \in Callers :
          pc[p] = "waiting" => pc'[p] \in {"waiting", "granted"}]_vars
  /\ (<>[][~Arrival]_vars) => (\A p \in Callers : (pc[p] = "waiting") ~> Resolved(p))

\* C6 witness: a call that was suspended has resolved.
C6_Witness ==
  \E p \in Callers : pc[p] = "inflight" /\ barrier[p] # -1

\* The callers that were suspended on an exhausted window.
Waiters == {p \in BurstCallers : barrier[p] # -1}

\* C7: when more than maxRequests callers were suspended on one exhausted
\* window, the fresh window admits at most maxRequests callers, every
\* admission is counted in the stored window, and a caller that still waits
\* holds either a timer that is due or a timer set to the resetTime of the
\* stored, full window.
C7_WaitersRace ==
  /\ \A c \in DOMAIN windows :
       /\ admitted[c] <= limits[c].maxRequests
       /\ admitted[c] = windows[c].requests
  /\ \A p \in BurstCallers :
       pc[p] = "waiting" =>
         \/ timer[p] <= now
         \/ /\ timer[p] = windows[endpointType[p]].resetTime
            /\ windows[endpointType[p]].requests
                 = limits[endpointType[p]].maxRequests

\* C7 witness: more than maxRequests callers were suspended on the first
\* window; after its resetTime exactly maxRequests of them hold a slot of the
\* fresh window, and another one is suspended again until the fresh window's
\* resetTime.
C7_Witness ==
  \E c \in DOMAIN windows :
    /\ Cardinality(Waiters) > limits[c].maxRequests
    /\ Cardinality({p \in Waiters : Resolved(p)}) = limits[c].maxRequests
    /\ windows[c].requests = limits[c].maxRequests
    /\ \E p \in Waiters :
         /\ pc[p] = "waiting" /\ endpointType[p] = c
         /\ barrier[p] <= now
         /\ timer[p] = windows[c].resetTime /\ timer[p] > now

\* The category of the claim for a path: search when the path contains the
\* search marker, else weblink when it contains the weblink marker, else
\* general.
CategoryOf(path) ==
  CASE Includes(path, "/search") -> "search"
    [] ~Includes(path, "/search") /\ Includes(path, "/save-weblink") -> "weblink"
    [] OTHER -> "general"

\* C8: every path has exactly one category, the one CategoryOf names, and a
\* call whose path contains the search marker reads and writes the search
\* window only.
C8_Classification ==
  /\ [](\A p \in GatewayCallers :
          pc[p] # "idle" =>
            /\ endpointType[p] \in Categories
            /\ endpointType[p] = CategoryOf(endpoint[p]))
  /\ [][\A p \in GatewayCallers :
          (pc[p] = "idle" /\ pc'[p] # "idle" /\ Includes(endpoint'[p], "/search"))
            => /\ "search" \in DOMAIN windows'
               /\ "search" \in DOMAIN windows =>
                    \/ windows'["search"] # windows["search"]
                    \/ pc'[p] = "waiting"
               /\ \A c \in {"general", "weblink"} :
                    /\ c \in DOMAIN windows' <=> c \in DOMAIN windows
                    /\ c \in DOMAIN windows => windows'[c] = windows[c]]_vars

\* C8 witness: a call whose path contains both markers holds a slot of the
\* search window, and no weblink window exists.
C8_Witness ==
  \E p \in GatewayCallers :
    /\ pc[p] = "inflight"
    /\ Includes(endpoint[p], "/search")
    /\ Includes(endpoint[p], "/save-weblink")
    /\ endpointType[p] = "search"
    /\ "search" \in DOMAIN windows
    /\ "weblink" \notin DOMAIN windows

\* The error code of the claim for a non-2xx status.
CodeOf(status) ==
  CASE status = 429 -> "RATE_LIMIT_EXCEEDED"
    [] status = 401 -> "AUTHENTICATION_FAILED"
    [] OTHER        -> "API_ERROR"

\* C9: a call answered with a non-2xx status has failed with a
\* CapacitiesAPIError whose code is the one of the status, whatever the body
\* and the headers; for a status other than 429 and 401 the message holds
\* the status.
C9_ErrorByStatus ==
  \A p \in GatewayCallers :
    (response[p].status # -1 /\ ~(response[p].status \in 200..299))
      => /\ result[p].kind = "throw"
         /\ result[p].name = "CapacitiesAPIError"
         /\ result[p].code = CodeOf(response[p].status)
         /\ response[p].status \notin {429, 401}
              => Includes(result[p].message, ToString(response[p].status))

\* C9 witness: a 429 answer that carries a JSON body has failed the call
\* with RATE_LIMIT_EXCEEDED.
C9_Witness ==
  \E p \in GatewayCallers :
    /\ response[p].status = 429
    /\ response[p].contentType = "application/json"
    /\ response[p].body = "{\"spaces\":[]}"
    /\ result[p].kind = "throw"
    /\ result[p].code = "RATE_LIMIT_EXCEEDED"

\* C10 (as claimed): a call whose fetch rejected before any response has
\* failed with a CapacitiesAPIError of code API_ERROR.
C10_TransportFailureTyped ==
  \A p \in GatewayCallers :
    (result[p].kind = "throw" /\ response[p].status = -1)
      => /\ result[p].name = "CapacitiesAPIError"
         /\ result[p].code = "API_ERROR"

\* A response whose headers announce a JSON body.
AnnouncesJson(r) ==
  /\ r.contentLength # "0"
  /\ r.contentType # None
  /\ Includes(r.contentType, "application/json")

\* C11: a call answered 2xx with content-length "0", or with a content-type
\* that is absent or not JSON, has returned {success: true} without reading
\* the body.
C11_SuccessMarkerWithoutBody ==
  \A p \in GatewayCallers :
    (response[p].status \in 200..299 /\ ~AnnouncesJson(response[p]))
      => /\ result[p].kind = "return"
         /\ result[p].value = SuccessMarker
         /\ ~result[p].bodyRead

\* C11 witness: a 200 answer with content-length "0" whose body would parse
\* as JSON has returned the success marker.
C11_Witness ==
  \E p \in GatewayCallers :
    /\ response[p].status = 200
    /\ response[p].contentLength = "0"
    /\ response[p].contentType = "application/json"
    /\ response[p].body = "{\"spaces\":[]}"
    /\ result[p].kind = "return"
    /\ result[p].value = SuccessMarker

\* C12: a call answered 2xx has returned, never thrown; when the headers
\* announce JSON it has returned the parsed body if the body parses and
\* {success: true} if it does not.
C12_ParseOrSuccessMarker ==
  \A p \in GatewayCallers :
    response[p].status \in 200..299
      => /\ result[p].kind = "return"
         /\ AnnouncesJson(response[p])
              => IF JsonParse(response[p].body).parsed
                 THEN result[p].value = JsonParse(response[p].body).value
                 ELSE result[p].value = SuccessMarker

\* C12 witness: a 200 answer announced as JSON with a malformed body has
\* returned the success marker after reading the body.
C12_Witness ==
  \E p \in GatewayCallers :
    /\ response[p].status = 200
    /\ AnnouncesJson(response[p])
    /\ response[p].body = "<html>"
    /\ result[p].kind = "return"
    /\ result[p].value = SuccessMarker
    /\ result[p].bodyRead

\* C13: the request of every facade operation carries the headers
\* Authorization: Bearer <apiToken> and Content-Type: application/json, and
\* no other header.
C13_AuthHeaders ==
  \A p \in FacadeCallers :
    pc[p] = "inflight" =>
      /\ DOMAIN request[p].init.headers = {"Authorization", "Content-Type"}
      /\ request[p].init.headers["Authorization"] = "Bearer " \o apiToken
      /\ request[p].init.headers["Content-Type"] = "application/json"

\* C13 witness: a saveWeblink request, a POST with a body, is in flight with
\* both headers, for a client constructed with the second token.
C13_Witness ==
  \E p \in FacadeCallers :
    /\ pc[p] = "inflight" /\ op[p].name = "saveWeblink"
    /\ apiToken = "tok-B"
    /\ request[p].init.method = "POST"
    /\ request[p].init.headers["Authorization"] = "Bearer tok-B"

\* C14: whatever the token, no debug record and no error message written so
\* far contains it, and no settled call's error message does.
C14_TokenConfined ==
  /\ ~tokenLogged
  /\ \A p \in FacadeCallers :
       result[p].kind = "throw" =>
         \A token \in Tokens : ~Includes(result[p].message, token)

\* C14 witness: a client constructed with the second token has had a JSON
\* answer, which makeRequest logs, and nothing logged held the token.
C14_Witness ==
  \E p \in FacadeCallers :
    /\ apiToken = "tok-B"
    /\ response[p].status = 200 /\ AnnouncesJson(response[p])
    /\ result[p].kind = "return" /\ result[p].bodyRead
    /\ ~tokenLogged

\* C15: a facade operation whose makeRequest failed has failed with the
\* same error: same name, code and message.
C15_ErrorsPropagate ==
  \A p \in FacadeCallers :
    result[p].kind = "throw" => opResult[p].settled = result[p]

\* C15 witness: getSpaces has failed with the RATE_LIMIT_EXCEEDED error of
\* its makeRequest.
C15_Witness ==
  \E p \in FacadeCallers :
    /\ result[p].kind = "throw" /\ result[p].code = "RATE_LIMIT_EXCEEDED"
    /\ opResult[p].op = "getSpaces"
    /\ opResult[p].settled.code = "RATE_LIMIT_EXCEEDED"

\* C16: a call holds at most one slot and has issued at most one request;
\* a call in flight or settled, whatever its outcome, was granted exactly
\* one slot and issued exactly one request.
C16_NoRetry ==
  \A p \in FacadeCallers :
    /\ slots[p] <= 1 /\ fetches[p] <= 1
    /\ pc[p] = "waiting" => slots[p] = 0 /\ fetches[p] = 0
    /\ pc[p] = "granted" => slots[p] = 1 /\ fetches[p] = 0
    /\ (pc[p] = "inflight" \/ result[p].kind # "none")
         => slots[p] = 1 /\ fetches[p] = 1

\* C16 witness: a call answered 429 has failed after one slot and one
\* request, and the window counts it once.
C16_Witness ==
  \E p \in FacadeCallers :
    /\ pc[p] = "idle"
    /\ result[p].kind = "throw" /\ result[p].code = "RATE_LIMIT_EXCEEDED"
    /\ slots[p] = 1 /\ fetches[p] = 1
    /\ calls.general = 1 /\ calls.other = 0
    /\ windows["general"].requests = 1

\* C17: a searchContent request is a POST to /search whose body has
\* searchTerm = query, spaceIds = spaceIds, mode = the given mode or
\* "fullText" when none is given, and filterStructureIds = structureIds when
\* given.
C17_SearchBody ==
  \A p \in FacadeCallers :
    (pc[p] = "inflight" /\ op[p].name = "searchContent") =>
      LET o == op[p].options
          body == request[p].init.body
      IN /\ request[p].url = baseUrl \o "/search"
         /\ request[p].init.method = "POST"
         /\ {"searchTerm", "spaceIds", "mode"} \subseteq DOMAIN body
         /\ body.searchTerm = o.query
         /\ body.spaceIds = o.spaceIds
         /\ body.mode = IF "mode" \in DOMAIN o THEN o.mode ELSE "fullText"
         /\ "structureIds" \in DOMAIN o
              => body.filterStructureIds = o.structureIds

\* C17 witness: searchContent({spaceIds: ["s1"], query: "x"}) is in flight
\* with searchTerm "x", spaceIds ["s1"] and mode "fullText".
C17_Witness ==
  \E p \in FacadeCallers :
    /\ pc[p] = "inflight" /\ op[p].name = "searchContent"
    /\ DOMAIN op[p].options = {"query", "spaceIds"}
    /\ request[p].init.body.searchTerm = "x"
    /\ request[p].init.body.spaceIds = <<"s1">>
    /\ request[p].init.body.mode = "fullText"

\* C18: a saveWeblink request always has tags, the given list or the empty
\* list, and a saveToDailyNote request always has noTimeStamp, the given
\* noTimestamp or false.
C18_DefaultedFields ==
  \A p \in FacadeCallers :
    LET o == op[p].options
        body == request[p].init.body
    IN /\ (pc[p] = "inflight" /\ op[p].name = "saveWeblink") =>
            /\ "tags" \in DOMAIN body
            /\ body.tags = IF "tags" \in DOMAIN o THEN o.tags ELSE <<>>
       /\ (pc[p] = "inflight" /\ op[p].name = "saveToDailyNote") =>
            /\ "noTimeStamp" \in DOMAIN body
            /\ body.noTimeStamp
                 = IF "noTimestamp" \in DOMAIN o THEN o.noTimestamp ELSE FALSE

\* C18 witness: saveWeblink called without tags is in flight with tags [].
C18_Witness ==
  \E p \in FacadeCallers :
    /\ pc[p] = "inflight" /\ op[p].name = "saveWeblink"
    /\ "tags" \notin DOMAIN op[p].options
    /\ request[p].init.body.tags = <<>>

\* C19 (as claimed): getSpaces and searchContent, when they complete without
\* error, have returned a list.
C19_ReturnsList ==
  \A p \in FacadeCallers :
    (/\ pc[p] = "idle" /\ result[p].kind # "none"
     /\ opResult[p].op \in {"getSpaces", "searchContent"}
     /\ opResult[p].settled.kind = "return")
      => opResult[p].settled.value.defined

\* C20: a run of waitForSlot for category c leaves the window of every other
\* category as it was, and suspends only when the window of c is current and
\* full.
C20_IndependentBudgets ==
  [][\A p \in AllCallers : \A c \in Categories :
       Enters(p, c) =>
         /\ \A d \in Categories \ {c} :
              /\ d \in DOMAIN windows' <=> d \in DOMAIN windows
              /\ d \in DOMAIN windows => windows'[d] = windows[d]
         /\ c \in DOMAIN windows'
         /\ pc'[p] = "waiting" =>
              /\ c \in DOMAIN windows
              /\ now < windows[c].resetTime
              /\ windows[c].requests >= limits[c].maxRequests]_vars

\* C20 witness: the general window is full and a caller waits on it, while a
\* caller of another category holds a slot it did not wait for.
C20_Witness ==
  \E p \in Callers : \E q \in Callers :
    /\ pc[p] = "waiting" /\ endpointType[p] = "general"
    /\ windows["general"].requests = limits["general"].maxRequests
    /\ now < windows["general"].resetTime
    /\ pc[q] = "granted" /\ endpointType[q] # "general" /\ barrier[q] = -1

C22_StepsOrdered ==
  [][\A p \in AllCallers :
       /\ (pc[p] = "idle" /\ pc'[p] # "idle")
            => /\ pc'[p] \in {"waiting", "granted"}
               /\ fetches'[p] = 0
       /\ fetches'[p] > fetches[p]
            => /\ pc[p] = "granted" /\ slots[p] = 1
               /\ windows[endpointType[p]].requests >= 1
       /\ (result[p].kind = "none" /\ result'[p].kind # "none")
            => pc[p] = "inflight" /\ fetches[p] = 1
       /\ (pc[p] # "idle" /\ pc'[p] # "idle")
            => endpoint'[p] = endpoint[p] /\ endpointType'[p] = endpointType[p]
       /\ pc'[p] # "idle"
            => endpointType'[p] = getEndpointType(endpoint'[p])
    ]_vars

\* C22 witness: a caller that had to wait has issued its request, once, with
\* the category of its path.
C22_Witness ==
  \E p \in Callers :
    /\ pc[p] = "inflight" /\ barrier[p] # -1
    /\ fetches[p] = 1 /\ slots[p] = 1
    /\ endpoint[p] = "/spaces" /\ endpointType[p] = "general"

\* C25: the step in which a request fails (an error status or a rejected
\* fetch) leaves every window, counter and resetTime, and every pending
\* timer as they were, and the slot stays counted; and whatever failed
\* before, a new call is suspended only when the window of its category is
\* current and full.
C25_FailureKeepsRateState ==
  [][\A p \in AllCallers :
       /\ (pc[p] = "inflight" /\ pc'[p] = "idle" /\ result'[p].kind = "throw")
            => /\ windows' = windows
               /\ timer' = timer
               /\ slots'[p] = 1 /\ admitted' = admitted
       /\ (pc[p] = "idle" /\ pc'[p] = "waiting")
            => LET c == endpointType'[p] IN
               /\ c \in DOMAIN windows
               /\ windows[c].requests = limits[c].maxRequests
               /\ now < windows[c].resetTime
    ]_vars

\* C25 witness: two general requests were counted, the second was refused
\* with 401, and the window still counts both.
C25_Witness ==
  \E p \in FacadeCallers :
    /\ pc[p] = "idle"
    /\ result[p].kind = "throw" /\ result[p].code = "AUTHENTICATION_FAILED"
    /\ calls.general = 2 /\ calls.other = 0
    /\ "general" \in DOMAIN windows
    /\ windows["general"].requests = 2
    /\ now < windows["general"].resetTime

\* C30: the window map starts empty; an entry appears only in a step in
\* which a caller enters its category, and is never removed; every stored
\* window has a counter of at least 1 and a resetTime at most windowMs ahead
\* (its creation time plus windowMs); a window is counted up in place only
\* while current, and replaced only when now >= its resetTime, by a window
\* with counter 1 and resetTime now + windowMs, strictly later than the old
\* one; apart from that a resetTime only comes nearer as time passes.
C30_WindowLifecycle ==
  /\ windows = <<>>
  /\ [](\A c \in DOMAIN windows :
          /\ c \in Categories
          /\ windows[c].requests >= 1
          /\ windows[c].resetTime <= now + limits[c].windowMs)
  /\ [][/\ DOMAIN windows \subseteq DOMAIN windows'
        /\ \A c \in DOMAIN windows' \ DOMAIN windows :
             /\ \E p \in AllCallers : Enters(p, c)
             /\ windows'[c] = [requests |-> 1,
                               resetTime |-> now + limits[c].windowMs]
        /\ \A c \in DOMAIN windows :
             \/ windows'[c] = windows[c]
             \/ /\ windows'[c].requests = windows[c].requests + 1
                /\ windows'[c].resetTime = windows[c].resetTime
                /\ now < windows[c].resetTime
                /\ \E p \in AllCallers : Enters(p, c)
             \/ /\ now >= windows[c].resetTime
                /\ windows'[c] = [requests |-> 1,
                                  resetTime |-> now + limits[c].windowMs]
                /\ windows'[c].resetTime > windows[c].resetTime
                /\ \E p \in AllCallers : Enters(p, c)
             \/ /\ windows'[c].requests = windows[c].requests
                /\ windows'[c].resetTime < windows[c].resetTime
                /\ pc' = pc
       ]_vars

\* C30 witness: the general window has been replaced (more requests were
\* admitted than one window holds) and counted up again, while the search
\* window is still the one created by its first request and the weblink
\* category has no window.
C30_Witness ==
  /\ DOMAIN windows = {"general", "search"}
  /\ calls.general = MaxCalls
  /\ windows["general"].requests = 2
  /\ windows["search"].requests = 1
  /\ windows["search"].resetTime < windows["general"].resetTime

\* C23 (as claimed): each facade operation draws from one budget whatever
\* its arguments: getSpaces, getSpaceInfo and saveToDailyNote from general,
\* searchContent from search, saveWeblink from weblink.
C23_FixedBudget ==
  \A p \in AllCallers :
    (pc[p] # "idle" /\ op[p].name # "makeRequest")
      => endpointType[p] =
           CASE op[p].name = "searchContent" -> "search"
             [] op[p].name = "saveWeblink"   -> "weblink"
             [] OTHER                        -> "general"

\* The 2xx answer r has an empty body.
EmptySuccess(r) == Ok(r.status) /\ r.contentLength = "0"

\* C24 (as claimed): when the upstream answers the write of save_weblink,
\* create_structured_note or add_to_daily_note with a 2xx response and an
\* empty body, the tool returns a result without isError.
C24_EmptyBodyWriteSucceeds ==
  (/\ toolResult.kind = "return"
   /\ toolResult.call.name
        \in {"save_weblink", "create_structured_note", "add_to_daily_note"}
   /\ EmptySuccess(response[1]))
    => ~toolResult.isError

\* The search_content invocation whose getSpaces call found the general
\* window full and current, as long as that window's resetTime lies ahead.
BlockedByGeneral(p) ==
  /\ tool.call.name = "search_content"
  /\ Len(tool.waits) > 0 /\ tool.waits[1] = p
  /\ barrier[p] # -1 /\ now < barrier[p]

\* C26: a search_content invocation calls getSpaces first and searchContent
\* only after getSpaces has returned, with or without a space_id; so a
\* searchContent call in progress belongs to an invocation that has called
\* getSpaces before, an invocation whose getSpaces failed has returned
\* without a search, and an invocation whose getSpaces call met a full
\* general window has sent no search request while that window's resetTime
\* lies ahead.
C26_SpacesBeforeSearch ==
  /\ [](\A p \in AllCallers :
          /\ (pc[p] # "idle" /\ op[p].name = "searchContent")
               => tool.requests = <<"getSpaces", "searchContent">>
          /\ BlockedByGeneral(p)
               => /\ pc[p] = "waiting" /\ op[p].name = "getSpaces"
                  /\ tool.requests = <<"getSpaces">>)
  /\ [](toolResult.kind = "return"
          => /\ toolResult.requests \in {<<"getSpaces">>,
                                         <<"getSpaces", "searchContent">>}
             /\ (toolResult.raised # {} /\ Len(toolResult.requests) = 1)
                  => toolResult.isError)
  /\ [][(tool.step # "search" /\ tool'.step = "search")
          => /\ tool.step = "spaces"
             /\ Awaited[1].kind = "return"
             /\ \A p \in AllCallers : fetches[p] <= 1]_vars

\* C26 witness: the sixth search_content invocation, given a space_id, waits
\* for the general window to reset with no search request sent, while the
\* search window counts five requests of its hundred and twenty.
C26_Witness ==
  \E p \in SearchCallers :
    /\ BlockedByGeneral(p)
    /\ tool.count = 6 /\ "space_id" \in DOMAIN tool.call.args
    /\ pc[p] = "waiting" /\ tool.requests = <<"getSpaces">>
    /\ windows["general"].requests = limits["general"].maxRequests
    /\ "search" \in DOMAIN windows
    /\ windows["search"].requests = 5
    /\ now < windows["search"].resetTime

\* The invocations with an empty query or with a space_id that is no UUID.
BadInput(call) ==
  \/ /\ call.name = "search_content"
     /\ \/ call.args.query = ""
        \/ /\ "space_id" \in DOMAIN call.args
           /\ call.args.space_id \in {"s1", SpaceUUIDv6}
  \/ /\ call.name \in {"get_space_info", "create_structured_note"}
     /\ call.args.space_id \in {"s1", SpaceUUIDv6}

\* C27: an invocation of search_content with an empty query or a non-UUID
\* space_id, or of get_space_info or create_structured_note with a non-UUID
\* space_id, throws in the step in which it arrives: no client operation is
\* called, no request is sent and the windows stay as they were.
C27_RejectedBeforeClient ==
  [][\A c \in ToolCalls :
       (/\ tool.step = "idle" /\ tool'.count = tool.count + 1
        /\ (toolResult'.call = c \/ tool'.call = c)
        /\ BadInput(c))
         => /\ toolResult'.kind = "throw" /\ toolResult'.call = c
            /\ toolResult'.requests = <<>>
            /\ tool'.step = "idle"
            /\ windows' = windows /\ sent' = sent /\ pc' = pc
            /\ fetches' = fetches /\ op' = op
    ]_vars

\* C27 witness: get_space_info was refused for a space id with version
\* digit 6, and no window exists.
C27_Witness ==
  /\ toolResult.kind = "throw"
  /\ toolResult.call.name = "get_space_info"
  /\ toolResult.call.args.space_id = SpaceUUIDv6
  /\ toolResult.text = "Invalid space ID: " \o SpaceUUIDv6
  /\ windows = <<>> /\ \A p \in AllCallers : fetches[p] = 0

\* C28 (as claimed): once validation has passed a handler never throws, and
\* every error raised by a client operation is returned as a result with
\* isError true whose text contains the error's message.
C28_ErrorsReported ==
  /\ toolResult.kind = "throw" => ~Validation(toolResult.call).ok
  /\ \A m \in toolResult.raised \cup toolResult.ignored :
       toolResult.kind = "return"
         => toolResult.isError /\ Includes(toolResult.text, m)

\* C28 (amended): once validation has passed a handler never throws, and
\* every error of a client operation that reaches the handler's catch is
\* returned as a result with isError true whose text contains the error's
\* message; only the errors of smart_search's related-content searches are
\* ignored, and do not make the result an error.
C28_ErrorsReportedUnlessRelated ==
  /\ toolResult.kind = "throw"
       => ~Validation(toolResult.call).ok /\ toolResult.requests = <<>>
  /\ \A m \in toolResult.raised :
       toolResult.kind = "return"
         => toolResult.isError /\ Includes(toolResult.text, m)
  /\ toolResult.ignored # {}
       => /\ toolResult.call.name = "smart_search"
          /\ toolResult.call.args.includeRelated
          /\ Len(toolResult.requests) >= 3
          /\ (toolResult.raised = {} => ~toolResult.isError)

\* C28 witness: search_content passed validation, its searchContent call was
\* refused with 429, and the tool returned the error.
C28_Witness ==
  /\ toolResult.kind = "return" /\ toolResult.isError
  /\ toolResult.call.name = "search_content"
  /\ toolResult.requests = <<"getSpaces", "searchContent">>
  /\ toolResult.raised = {"Rate limit exceeded"}
  /\ toolResult.text = "Search failed: Rate limit exceeded"

\* C29 (as claimed): the list smart_search shows has no two entries with
\* the same id and at most maxResults entries.
C29_UniqueAndBounded ==
  (/\ toolResult.kind = "return" /\ ~toolResult.isError
   /\ toolResult.call.name = "smart_search")
    => /\ Len(toolResult.results) <= toolResult.call.args.maxResults
       /\ \A i, j \in 1..Len(toolResult.results) :
            i # j => toolResult.results[i].id # toolResult.results[j].id

=============================================================================
